---- MODULE Spec2Model ----
(***************************************************************************)
(* NOVA: the membership ledger (contract/src/lib.rs) as it runs on the     *)
(* host, and the client workflows of nova-sdk-rs that call it.             *)
(*                                                                         *)
(* Every contract call is one atomic step: the host loads the contract     *)
(* state from its key-value storage, runs the method, and commits the      *)
(* writes only if the method did not panic.                                *)
(*                                                                         *)
(* Text values.  Account ids, group ids and hashes are strings.  A base64  *)
(* text (a group key) is the sequence of its characters, each character    *)
(* given by its code: 0..63 its index in the standard alphabet, Pad for    *)
(* '=', and OtherChar for a character outside the alphabet.                *)
(***************************************************************************)
EXTENDS Integers, Sequences, FiniteSets, TLC

VARIABLES
  owner,            \* Contract.owner: the registrar fixed by new()
  groups,           \* Contract.groups: group_id -> Group {owner, group_key}
  group_members,    \* Contract.group_members: group_id -> the stored StoreVec (its len)
  vec_storage,      \* storage under the prefix StorageKey::GroupMembers: index -> AccountId
  transactions,     \* Contract.transactions: IterableMap in key insertion order
  block_timestamp,  \* env::block_timestamp() of the current block
  granted,          \* history: <<g, u>> added to g and not revoked from g since
  revoked,          \* history: <<g, u>> revoked from g and not added to g since
  last,             \* the last call: operation, arguments, result, return value
  sdk               \* NovaSdk: the client call in progress, its position and locals

vars == <<owner, groups, group_members, vec_storage, transactions,
          block_timestamp, granted, revoked, last, sdk>>

ledger == <<owner, groups, group_members, vec_storage, transactions>>

-----------------------------------------------------------------------------
(* Bounds of the model *)

MaxMembers == 2
MaxLog == 1
MaxTime == 1
MaxListLog == 2

(* Program constants *)

KeyLen == 32
Pad == 64
OtherChar == 65

(* Inputs *)

Accounts == {"owner", "m1", "m2"}
Callers == {"owner", "m1"}    \* who signs the mutating calls
Users == {"m1", "m2"}         \* who is added, revoked and recorded
GroupIds == {"g1", "g2"}

Bytes32(v) == [i \in 1..KeyLen |-> v]
Seeds == {Bytes32(0), Bytes32(1)}

-----------------------------------------------------------------------------
(* base64::engine::general_purpose::STANDARD *)

RECURSIVE Base64Encode(_)
Base64Encode(b) ==
  IF Len(b) = 0 THEN <<>>
  ELSE IF Len(b) = 1 THEN
    << b[1] \div 4, (b[1] % 4) * 16, Pad, Pad >>
  ELSE IF Len(b) = 2 THEN
    << b[1] \div 4, (b[1] % 4) * 16 + (b[2] \div 16), (b[2] % 16) * 4, Pad >>
  ELSE
    << b[1] \div 4, (b[1] % 4) * 16 + (b[2] \div 16),
       (b[2] % 16) * 4 + (b[3] \div 64), b[3] % 64 >>
    \o Base64Encode(SubSeq(b, 4, Len(b)))

\* The bytes of the quads of t, the sextet of a padding character read as 0.
RECURSIVE QuadBytes(_)
QuadBytes(t) ==
  IF Len(t) = 0 THEN <<>>
  ELSE LET s(i) == IF t[i] = Pad THEN 0 ELSE t[i]
       IN << s(1) * 4 + (s(2) \div 16),
             (s(2) % 16) * 16 + (s(3) \div 4),
             (s(3) % 4) * 64 + s(4) >>
          \o QuadBytes(SubSeq(t, 5, Len(t)))

\* Canonical padding is required and trailing bits must be zero.
Base64Decode(t) ==
  LET n == Len(t)
      npad == IF n = 0 \/ t[n] # Pad THEN 0
              ELSE IF n >= 2 /\ t[n - 1] = Pad THEN 2 ELSE 1
      body == n - npad
      bad == [ok |-> FALSE, bytes |-> <<>>]
  IN IF n % 4 # 0 THEN bad
     ELSE IF \E i \in 1..body : t[i] > 63 THEN bad
     ELSE IF npad = 1 /\ t[body] % 4 # 0 THEN bad
     ELSE IF npad = 2 /\ t[body] % 16 # 0 THEN bad
     ELSE LET all == QuadBytes(t)
          IN [ok |-> TRUE, bytes |-> SubSeq(all, 1, Len(all) - npad)]

-----------------------------------------------------------------------------
(* Bytes *)

ByteMod == 256

\* A sequence given by a rule, as the tuple of its elements.
Concrete(seq) == seq \o <<>>

\* Exclusive or of two bytes, bit by bit from the lowest.
RECURSIVE XorBits(_, _)
XorBits(a, b) ==
  IF a = 0 THEN b
  ELSE IF b = 0 THEN a
  ELSE ((a + b) % 2) + 2 * XorBits(a \div 2, b \div 2)

XorTable ==
  [a \in 0..(ByteMod - 1) |->
     [b \in 0..(ByteMod - 1) |-> XorBits(a, b)] @@ <<>>] @@ <<>>

Xor(a, b) == XorTable[a][b]

\* Bitwise and of two bytes.
RECURSIVE AndBits(_, _)
AndBits(a, b) ==
  IF a = 0 \/ b = 0 THEN 0
  ELSE ((a % 2) * (b % 2)) + 2 * AndBits(a \div 2, b \div 2)

AndTable ==
  [a \in 0..(ByteMod - 1) |->
     [b \in 0..(ByteMod - 1) |-> AndBits(a, b)] @@ <<>>] @@ <<>>

(* sha2::Sha256 and env::sha256, the hash of FIPS 180-4.  A word of 32     *)
(* bits is the pair of its upper and its lower 16 bits.                    *)

Half == ByteMod * ByteMod

Xor16(x, y) ==
  XorTable[x \div ByteMod][y \div ByteMod] * ByteMod
    + XorTable[x % ByteMod][y % ByteMod]

And16(x, y) ==
  AndTable[x \div ByteMod][y \div ByteMod] * ByteMod
    + AndTable[x % ByteMod][y % ByteMod]

WXor(x, y) == <<Xor16(x[1], y[1]), Xor16(x[2], y[2])>>
WAnd(x, y) == <<And16(x[1], y[1]), And16(x[2], y[2])>>
WNot(x) == <<Half - 1 - x[1], Half - 1 - x[2]>>

\* Addition modulo 2^32.
WAdd(x, y) ==
  LET lo == x[2] + y[2]
  IN <<(x[1] + y[1] + (lo \div Half)) % Half, lo % Half>>

\* Rotation and shift to the right by k bits.
RotR(x, k) ==
  LET hi == IF k < 16 THEN x[1] ELSE x[2]
      lo == IF k < 16 THEN x[2] ELSE x[1]
      j == k % 16
  IN <<(hi \div (2 ^ j)) + (lo % (2 ^ j)) * (2 ^ (16 - j)),
       (lo \div (2 ^ j)) + (hi % (2 ^ j)) * (2 ^ (16 - j))>>

ShR(x, k) ==
  <<x[1] \div (2 ^ k),
    (x[2] \div (2 ^ k)) + (x[1] % (2 ^ k)) * (2 ^ (16 - k))>>

Ch(x, y, z) == WXor(WAnd(x, y), WAnd(WNot(x), z))
Maj(x, y, z) == WXor(WXor(WAnd(x, y), WAnd(x, z)), WAnd(y, z))
BigSigma0(x) == WXor(WXor(RotR(x, 2), RotR(x, 13)), RotR(x, 22))
BigSigma1(x) == WXor(WXor(RotR(x, 6), RotR(x, 11)), RotR(x, 25))
SmallSigma0(x) == WXor(WXor(RotR(x, 7), RotR(x, 18)), ShR(x, 3))
SmallSigma1(x) == WXor(WXor(RotR(x, 17), RotR(x, 19)), ShR(x, 10))

\* The round constants and the initial hash value.
ShaK ==
  << <<17034, 12184>>, <<28983, 17553>>, <<46528, 64463>>, <<59829, 56229>>,
     <<14678, 49755>>, <<23025, 4593>>, <<37439, 33444>>, <<43804, 24277>>,
     <<55303, 43672>>, <<4739, 23297>>, <<9265, 34238>>, <<21772, 32195>>,
     <<29374, 23924>>, <<32990, 45566>>, <<39900, 1703>>, <<49563, 61812>>,
     <<58523, 27073>>, <<61374, 18310>>, <<4033, 40390>>, <<9228, 41420>>,
     <<11753, 11375>>, <<19060, 33962>>, <<23728, 43484>>, <<30457, 35034>>,
     <<38974, 20818>>, <<43057, 50797>>, <<45059, 10184>>, <<48985, 32711>>,
     <<50912, 3059>>, <<54695, 37191>>, <<1738, 25425>>, <<5161, 10599>>,
     <<10167, 2693>>, <<11803, 8504>>, <<19756, 28156>>, <<21304, 3347>>,
     <<25866, 29524>>, <<30314, 2747>>, <<33218, 51502>>, <<37490, 11397>>,
     <<41663, 59553>>, <<43034, 26187>>, <<49739, 35696>>, <<51052, 20899>>,
     <<53650, 59417>>, <<54937, 1572>>, <<62478, 13701>>, <<4202, 41072>>,
     <<6564, 49430>>, <<7735, 27656>>, <<10056, 30540>>, <<13488, 48309>>,
     <<14620, 3251>>, <<20184, 43594>>, <<23452, 51791>>, <<26670, 28659>>,
     <<29839, 33518>>, <<30885, 25455>>, <<33992, 30740>>, <<36039, 520>>,
     <<37054, 65530>>, <<42064, 27883>>, <<48889, 41975>>, <<50801, 30962>> >>

ShaH0 ==
  << <<27145, 58983>>, <<47975, 44677>>, <<15470, 62322>>, <<42319, 62778>>,
     <<20750, 21119>>, <<39685, 26764>>, <<8067, 55723>>, <<23520, 52505>> >>

\* The message with its padding: a byte 128, zero bytes up to 56 modulo 64,
\* and the length in bits as 8 bytes.
ShaPad(data) ==
  LET len == Len(data)
      zeros == (119 - (len % 64)) % 64
      bits == 8 * len
  IN data \o <<128>> \o [i \in 1..zeros |-> 0]
       \o <<0, 0, 0, 0, (bits \div 16777216) % ByteMod,
            (bits \div Half) % ByteMod, (bits \div ByteMod) % ByteMod,
            bits % ByteMod>>

\* The message schedule: 64 words, the first 16 those of the block.
RECURSIVE ShaSchedule(_)
ShaSchedule(w) ==
  LET t == Len(w)
  IN IF t = 64 THEN w
     ELSE ShaSchedule(Append(w, WAdd(WAdd(SmallSigma1(w[t - 1]), w[t - 6]),
                                     WAdd(SmallSigma0(w[t - 14]), w[t - 15]))))

BlockWords(blk) ==
  [i \in 1..16 |-> <<blk[4 * i - 3] * ByteMod + blk[4 * i - 2],
                     blk[4 * i - 1] * ByteMod + blk[4 * i]>>]

\* Rounds t to 64 on the working variables v = <<a, b, c, d, e, f, g, h>>;
\* the variables of a round are computed before the next round is entered.
ShaStep(v, t1, t2) ==
  <<WAdd(t1, t2), v[1], v[2], v[3], WAdd(v[4], t1), v[5], v[6], v[7]>>

RECURSIVE ShaRounds(_, _, _)
ShaRounds(w, v, t) ==
  IF t > 64 \/ Len(v) # 8 THEN v
  ELSE ShaRounds(w,
         ShaStep(v,
                 WAdd(WAdd(WAdd(v[8], BigSigma1(v[5])),
                           WAdd(Ch(v[5], v[6], v[7]), ShaK[t])), w[t]),
                 WAdd(BigSigma0(v[1]), Maj(v[1], v[2], v[3]))),
         t + 1)

ShaCompressWith(h, v) == [i \in 1..8 |-> WAdd(h[i], v[i])] \o <<>>

ShaCompress(h, blk) ==
  ShaCompressWith(h, ShaRounds(ShaSchedule(BlockWords(blk) \o <<>>), h, 1))

RECURSIVE ShaBlocks(_, _)
ShaBlocks(h, msg) ==
  IF Len(msg) = 0 \/ Len(h) # 8 THEN h
  ELSE ShaBlocks(ShaCompress(h, SubSeq(msg, 1, 64)), SubSeq(msg, 65, Len(msg)))

WordBytes(x) ==
  <<x[1] \div ByteMod, x[1] % ByteMod, x[2] \div ByteMod, x[2] % ByteMod>>

RECURSIVE WordsBytes(_)
WordsBytes(h) ==
  IF Len(h) = 0 THEN <<>> ELSE WordBytes(Head(h)) \o WordsBytes(Tail(h))

Sha256Digest(data) == WordsBytes(ShaBlocks(ShaH0, ShaPad(data)))

HexBase == 16

HexDigits ==
  <<"0", "1", "2", "3", "4", "5", "6", "7", "8", "9", "a", "b", "c", "d",
    "e", "f">>

\* format!("{:02x}", b) of every byte
RECURSIVE hex_encode(_)
hex_encode(bytes) ==
  IF Len(bytes) = 0 THEN <<>>
  ELSE << HexDigits[(Head(bytes) \div HexBase) + 1],
          HexDigits[(Head(bytes) % HexBase) + 1] >>
       \o hex_encode(Tail(bytes))

\* The bytes of a text of ASCII letters and digits (str::as_bytes).
AsciiDigits == "0123456789"
AsciiUpper == "ABCDEFGHIJKLMNOPQRSTUVWXYZ"
AsciiLower == "abcdefghijklmnopqrstuvwxyz"

CharsOf(text) == {SubSeq(text, i, i) : i \in 1..Len(text)}

CharCode ==
  [c \in CharsOf(AsciiDigits) \cup CharsOf(AsciiUpper) \cup CharsOf(AsciiLower) |->
     IF c \in CharsOf(AsciiDigits)
       THEN 47 + (CHOOSE i \in 1..10 : SubSeq(AsciiDigits, i, i) = c)
     ELSE IF c \in CharsOf(AsciiUpper)
       THEN 64 + (CHOOSE i \in 1..26 : SubSeq(AsciiUpper, i, i) = c)
     ELSE 96 + (CHOOSE i \in 1..26 : SubSeq(AsciiLower, i, i) = c)] @@ <<>>

as_bytes(text) == Concrete([i \in 1..Len(text) |-> CharCode[SubSeq(text, i, i)]])

\* Content ids, as character sequences, and their text.
Cids == {<<"Q", "m">>, <<"m">>}

RECURSIVE Text(_)
Text(chars) == IF chars = <<>> THEN "" ELSE Head(chars) \o Text(Tail(chars))

FileHashes == {"f", "fQ"}
IpfsHashes == {Text(c) : c \in Cids}

\* Plaintexts of the workflows.
FlowData == { <<>>, <<255, 216, 255, 224, 0, 16>> }

\* The digests of the messages that the operations explored hash: the
\* plaintexts of the workflows and the texts of record_transaction.  They
\* are computed once; sha256_hash is Sha256Digest on every message.
DigestsOf(messages) == [m \in messages |-> Sha256Digest(m)] @@ <<>>

HashedTexts(hashes) ==
  { g \o u \o fh \o ih \o ToString(t) :
      g \in GroupIds, u \in Accounts,
      fh \in FileHashes \cup {Text(hex_encode(hashes[d])) : d \in DOMAIN hashes},
      ih \in IpfsHashes, t \in 0..MaxTime }

DigestsWith(hashes) ==
  hashes @@ DigestsOf({as_bytes(t) : t \in HashedTexts(hashes)})

KnownDigests == DigestsWith(DigestsOf(FlowData))

DigestIn(digests, data) ==
  IF data \in DOMAIN digests THEN digests[data] ELSE Sha256Digest(data)

sha256_hash(data) == DigestIn(KnownDigests, data)

-----------------------------------------------------------------------------
\* Keys a caller may pass to store_group_key: the base64 of 32 zero bytes,
\* the base64 of 31 bytes, a text with a character outside the alphabet,
\* and a text whose length is no multiple of 4.
KeyInputs ==
  { Base64Encode(Bytes32(0)),
    Base64Encode([i \in 1..(KeyLen - 1) |-> 0]),
    <<0, 0, OtherChar, 0>>,
    <<0, 0, 0>> }

\* The key a group's owner stores, and the seed of the block of a revocation:
\* the rotation of RotationSeed never yields OwnerKey.
OwnerKey == Base64Encode(Bytes32(0))
RotationSeed == Bytes32(1)

-----------------------------------------------------------------------------
(* Option<String> of Group.group_key *)

NoneKey == [is_some |-> FALSE, value |-> <<>>]
SomeKey(k) == [is_some |-> TRUE, value |-> k]

(* The panic messages of the contract, and the result of a call that returns *)

Ok == "Ok"
ErrIndexOutOfBounds == "Index out of bounds"

\* The client runs no call.
SdkIdle == [pc |-> "idle"]

NoCall == [op |-> "none", caller |-> "-", group_id |-> "-", user_id |-> "-",
           result |-> "-", ret |-> "-", calls |-> <<>>]

Init ==
  /\ owner = "owner"
  /\ groups = <<>>
  /\ group_members = <<>>
  /\ vec_storage = <<>>
  /\ transactions = <<>>
  /\ block_timestamp = 0
  /\ granted = {}
  /\ revoked = {}
  /\ last = NoCall
  /\ sdk = SdkIdle

-----------------------------------------------------------------------------
(* near_sdk::store::Vector over the shared element storage.                *)
(* Every StoreVec is created by StoreVec::new(StorageKey::GroupMembers):   *)
(* element i of every group's vector lives under the same storage key,     *)
(* prefix ++ i; only the length is stored per group.                       *)

Absent == "absent"

Slot(i) == IF i \in DOMAIN vec_storage THEN vec_storage[i] ELSE Absent

\* The storage with slot i written (e an account) or removed (e = Absent).
SlotSet(st, i, e) ==
  IF e = Absent
  THEN [j \in DOMAIN st \ {i} |-> st[j]]
  ELSE [j \in DOMAIN st \cup {i} |-> IF j = i THEN e ELSE st[j]]

\* members.iter().any(|x| *x == user_id) and members.iter().position(..):
\* the iterator reads slots 0, 1, .. len-1 in order, panics on a slot that
\* holds nothing, and stops at the first slot that holds user_id.
VecFind(len, user_id) ==
  LET stops == {i \in 0..(len - 1) : Slot(i) = Absent \/ Slot(i) = user_id}
  IN IF stops = {} THEN [kind |-> "none", pos |-> 0]
     ELSE LET i == CHOOSE i \in stops : \A j \in stops : i <= j
          IN IF Slot(i) = Absent THEN [kind |-> "panic", pos |-> i]
             ELSE [kind |-> "found", pos |-> i]

\* members.push(user_id): writes slot len.
VecPush(len, user_id) == SlotSet(vec_storage, len, user_id)

\* members.swap_remove(pos): slot pos takes what slot len-1 holds, slot
\* len-1 is removed.
VecSwapRemove(len, pos) ==
  LET lastIdx == len - 1
  IN IF pos = lastIdx THEN SlotSet(vec_storage, lastIdx, Absent)
     ELSE SlotSet(SlotSet(vec_storage, pos, Slot(lastIdx)), lastIdx, Absent)

\* The accounts a group's vector holds, as the contract reads it.
Members(g) == {Slot(i) : i \in 0..(group_members[g] - 1)} \ {Absent}

-----------------------------------------------------------------------------
(* Map updates *)

MapPut(m, k, v) == [x \in DOMAIN m \cup {k} |-> IF x = k THEN v ELSE m[x]]

Call(op, caller, group_id, user_id, result, ret) ==
  [op |-> op, caller |-> caller, group_id |-> group_id, user_id |-> user_id,
   result |-> result, ret |-> ret, calls |-> <<>>]

-----------------------------------------------------------------------------
(* register_group *)

\* register_group without the "Group exists" assertion.
register_group_result_NoExistsCheck(caller, group_id) ==
  IF caller # owner THEN "Only owner can register"
  ELSE Ok

\* register_group without the "Only owner can register" assertion.
register_group_result_NoOwnerCheck(caller, group_id) ==
  IF group_id \in DOMAIN groups THEN "Group exists"
  ELSE Ok

register_group_result(caller, group_id) ==
  IF group_id \in DOMAIN groups THEN "Group exists"
  ELSE IF caller # owner THEN "Only owner can register"
  ELSE Ok

register_group_tx(caller, group_id) ==
  LET r == register_group_result(caller, group_id)
  IN /\ last' = Call("register_group", caller, group_id, "-", r, "-")
     /\ IF r = Ok
        THEN /\ groups' = MapPut(groups, group_id,
                                 [owner |-> caller, group_key |-> NoneKey])
             /\ group_members' = MapPut(group_members, group_id, 0)
        ELSE UNCHANGED <<groups, group_members>>
     /\ UNCHANGED <<owner, vec_storage, transactions, block_timestamp, granted, revoked>>

register_group(caller, group_id) ==
  register_group_tx(caller, group_id) /\ UNCHANGED sdk


(* is_authorized *)

is_authorized_result(group_id, user_id) ==
  IF group_id \notin DOMAIN group_members THEN "Group not found"
  ELSE IF VecFind(group_members[group_id], user_id).kind = "panic"
       THEN ErrIndexOutOfBounds
  ELSE Ok

is_authorized_value(group_id, user_id) ==
  VecFind(group_members[group_id], user_id).kind = "found"

is_authorized(caller, group_id, user_id) ==
  LET r == is_authorized_result(group_id, user_id)
  IN /\ last' = Call("is_authorized", caller, group_id, user_id, r,
                     IF r = Ok THEN is_authorized_value(group_id, user_id)
                     ELSE "-")
     /\ UNCHANGED <<ledger, block_timestamp, granted, revoked, sdk>>

(* add_group_member *)

\* add_group_member without the "Only group owner can add" assertion.
add_group_member_result_NoOwnerCheck(caller, group_id, user_id) ==
  IF group_id \notin DOMAIN groups THEN "Group not found"
  ELSE LET f == VecFind(group_members[group_id], user_id)
       IN IF f.kind = "panic" THEN ErrIndexOutOfBounds
          ELSE IF f.kind = "found" THEN "User already a member"
          ELSE Ok

add_group_member_result(caller, group_id, user_id) ==
  IF group_id \notin DOMAIN groups THEN "Group not found"
  ELSE IF caller # groups[group_id].owner THEN "Only group owner can add"
  ELSE LET f == VecFind(group_members[group_id], user_id)
       IN IF f.kind = "panic" THEN ErrIndexOutOfBounds
          ELSE IF f.kind = "found" THEN "User already a member"
          ELSE Ok

add_group_member_tx(caller, group_id, user_id) ==
  LET r == add_group_member_result(caller, group_id, user_id)
  IN /\ last' = Call("add_group_member", caller, group_id, user_id, r, "-")
     /\ IF r = Ok
        THEN /\ vec_storage' = VecPush(group_members[group_id], user_id)
             /\ group_members' =
                  [group_members EXCEPT ![group_id] = group_members[group_id] + 1]
             /\ granted' = granted \cup {<<group_id, user_id>>}
             /\ revoked' = revoked \ {<<group_id, user_id>>}
        ELSE UNCHANGED <<vec_storage, group_members, granted, revoked>>
     /\ UNCHANGED <<owner, groups, transactions, block_timestamp>>

add_group_member(caller, group_id, user_id) ==
  add_group_member_tx(caller, group_id, user_id) /\ UNCHANGED sdk

\* The runs explored keep a member vector at max entries or fewer: a call
\* that would push one more is not among them.
MemberRoom(max, caller, group_id, user_id) ==
  add_group_member_result(caller, group_id, user_id) = Ok =>
    group_members[group_id] < max


(* revoke_group_member *)

revoke_group_member_result(caller, group_id, user_id) ==
  IF group_id \notin DOMAIN groups THEN "Group not found"
  ELSE IF caller # groups[group_id].owner THEN "Only group owner can revoke"
  ELSE LET f == VecFind(group_members[group_id], user_id)
       IN IF f.kind = "panic" THEN ErrIndexOutOfBounds
          ELSE IF f.kind = "none" THEN "User not a member"
          ELSE Ok

\* The rotation with a seed slice one byte short (random_seed[0..31]).
rotated_key_ShortSlice(random_seed) ==
  Base64Encode(SubSeq(random_seed, 1, KeyLen - 1))

\* The key the rotation stores: base64 of the first 32 bytes of the seed.
rotated_key(random_seed) == Base64Encode(SubSeq(random_seed, 1, KeyLen))

revoke_group_member_tx(caller, group_id, user_id, random_seed) ==
  LET r == revoke_group_member_result(caller, group_id, user_id)
  IN /\ last' = Call("revoke_group_member", caller, group_id, user_id, r, "-")
     /\ IF r = Ok
        THEN LET len == group_members[group_id]
                 pos == VecFind(len, user_id).pos
             IN /\ vec_storage' = VecSwapRemove(len, pos)
                /\ group_members' = [group_members EXCEPT ![group_id] = len - 1]
                /\ groups' = [groups EXCEPT ![group_id].group_key =
                                SomeKey(rotated_key(random_seed))]
                /\ granted' = granted \ {<<group_id, user_id>>}
                /\ revoked' = revoked \cup {<<group_id, user_id>>}
        ELSE UNCHANGED <<vec_storage, group_members, groups, granted, revoked>>
     /\ UNCHANGED <<owner, transactions, block_timestamp>>

revoke_group_member(caller, group_id, user_id, random_seed) ==
  revoke_group_member_tx(caller, group_id, user_id, random_seed) /\ UNCHANGED sdk


(* store_group_key *)

\* store_group_key without the "Key must be 32 bytes" assertion.
store_group_key_result_NoLengthCheck(caller, group_id, key) ==
  IF group_id \notin DOMAIN groups THEN "Group not found"
  ELSE IF caller # groups[group_id].owner THEN "Only group owner can store key"
  ELSE IF ~Base64Decode(key).ok THEN "Invalid base64 key"
  ELSE Ok

store_group_key_result(caller, group_id, key) ==
  IF group_id \notin DOMAIN groups THEN "Group not found"
  ELSE IF caller # groups[group_id].owner THEN "Only group owner can store key"
  ELSE IF ~Base64Decode(key).ok THEN "Invalid base64 key"
  ELSE IF Len(Base64Decode(key).bytes) # KeyLen THEN "Key must be 32 bytes"
  ELSE Ok

store_group_key_tx(caller, group_id, key) ==
  LET r == store_group_key_result(caller, group_id, key)
  IN /\ last' = Call("store_group_key", caller, group_id, "-", r, key)
     /\ IF r = Ok
        THEN groups' = [groups EXCEPT ![group_id].group_key = SomeKey(key)]
        ELSE UNCHANGED groups
     /\ UNCHANGED <<owner, group_members, vec_storage, transactions,
                    block_timestamp, granted, revoked>>

store_group_key(caller, group_id, key) ==
  store_group_key_tx(caller, group_id, key) /\ UNCHANGED sdk


(* get_group_key *)

\* A view query runs the method with no predecessor: the host refuses
\* env::predecessor_account_id() there and the query fails.
InView == "in-view"
ErrProhibitedInView == "ProhibitedInView"

\* get_group_key where a group that does not exist counts as one without
\* members, as if is_authorized returned false instead of panicking.
get_group_key_result_MissingGroupHasNoMember(caller, group_id) ==
  IF caller = InView THEN ErrProhibitedInView
  ELSE IF group_id \notin DOMAIN group_members THEN "Unauthorized"
  ELSE LET a == is_authorized_result(group_id, caller)
       IN IF a # Ok THEN a
          ELSE IF ~is_authorized_value(group_id, caller) THEN "Unauthorized"
          ELSE IF ~groups[group_id].group_key.is_some THEN "No key set"
          ELSE Ok

get_group_key_result(caller, group_id) ==
  IF caller = InView THEN ErrProhibitedInView
  ELSE LET a == is_authorized_result(group_id, caller)
       IN IF a # Ok THEN a
          ELSE IF ~is_authorized_value(group_id, caller) THEN "Unauthorized"
          ELSE IF group_id \notin DOMAIN groups THEN "Group not found"
          ELSE IF ~groups[group_id].group_key.is_some THEN "No key set"
          ELSE Ok

get_group_key_value(group_id) == groups[group_id].group_key.value

\* get_group_key that takes the key out of the group (Option::take) where
\* the contract clones it.
get_group_key_TakesKey(caller, group_id) ==
  LET r == get_group_key_result(caller, group_id)
  IN /\ last' = Call("get_group_key", caller, group_id, "-", r,
                     IF r = Ok THEN get_group_key_value(group_id) ELSE "-")
     /\ groups' = IF r = Ok
                    THEN [groups EXCEPT ![group_id].group_key = NoneKey]
                    ELSE groups
     /\ UNCHANGED <<owner, group_members, vec_storage, transactions,
                    block_timestamp, granted, revoked, sdk>>

get_group_key(caller, group_id) ==
  LET r == get_group_key_result(caller, group_id)
  IN /\ last' = Call("get_group_key", caller, group_id, "-", r,
                     IF r = Ok THEN get_group_key_value(group_id) ELSE "-")
     /\ UNCHANGED <<ledger, block_timestamp, granted, revoked, sdk>>

(* record_transaction *)

\* hex::encode(env::sha256(format!("{}{}{}{}{}", ..).as_bytes()))
trans_id(group_id, user_id, file_hash, ipfs_hash, timestamp) ==
  Text(hex_encode(sha256_hash(as_bytes(
    group_id \o user_id \o file_hash \o ipfs_hash \o ToString(timestamp)))))

record_transaction_result(caller, group_id, user_id) ==
  IF group_id \notin DOMAIN groups THEN "Group not found"
  ELSE LET a == is_authorized_result(group_id, user_id)
       IN IF a # Ok THEN a
          ELSE IF ~is_authorized_value(group_id, user_id) THEN "User not authorized"
          ELSE IF caller # owner THEN "Only owner can record"
          ELSE Ok

HasKey(log, id) == \E i \in 1..Len(log) : log[i].id = id

\* IterableMap::insert: a new key is appended to the key vector, the value
\* of a key already present is overwritten in place.
IterableMapInsert(log, e) ==
  IF HasKey(log, e.id)
  THEN [i \in 1..Len(log) |-> IF log[i].id = e.id THEN e ELSE log[i]]
  ELSE Append(log, e)

record_transaction_tx(caller, group_id, user_id, file_hash, ipfs_hash) ==
  LET r == record_transaction_result(caller, group_id, user_id)
      id == trans_id(group_id, user_id, file_hash, ipfs_hash, block_timestamp)
      tx == [id |-> id, group_id |-> group_id, user_id |-> user_id,
             file_hash |-> file_hash, ipfs_hash |-> ipfs_hash]
  IN /\ last' = Call("record_transaction", caller, group_id, user_id, r,
                     IF r = Ok THEN id ELSE "-")
     /\ IF r = Ok
        THEN transactions' = IterableMapInsert(transactions, tx)
        ELSE UNCHANGED transactions
     /\ UNCHANGED <<owner, groups, group_members, vec_storage,
                    block_timestamp, granted, revoked>>

record_transaction(caller, group_id, user_id, file_hash, ipfs_hash) ==
  record_transaction_tx(caller, group_id, user_id, file_hash, ipfs_hash) /\ UNCHANGED sdk


\* The runs explored keep the log at max entries or fewer: a call that
\* would insert one more is not among them.
LogRoom(max, caller, group_id, user_id, file_hash, ipfs_hash) ==
  record_transaction_result(caller, group_id, user_id) = Ok =>
    \/ Len(transactions) < max
    \/ HasKey(transactions,
              trans_id(group_id, user_id, file_hash, ipfs_hash, block_timestamp))

(* get_transactions_for_group *)

get_transactions_for_group_result(group_id, user_id) ==
  IF group_id \notin DOMAIN groups THEN "Group not found"
  ELSE LET a == is_authorized_result(group_id, user_id)
       IN IF a # Ok THEN a
          ELSE IF ~(is_authorized_value(group_id, user_id) \/ user_id = owner)
               THEN "Unauthorized"
          ELSE Ok

\* The Transaction stored under a key of the log.
TxValue(e) ==
  [group_id |-> e.group_id, user_id |-> e.user_id,
   file_hash |-> e.file_hash, ipfs_hash |-> e.ipfs_hash]

\* get_transactions_for_group without the filter on the group.
get_transactions_for_group_value_NoFilter(group_id) ==
  [i \in 1..Len(transactions) |-> TxValue(transactions[i])]

\* self.transactions.values().filter(|tx| tx.group_id == group_id)
get_transactions_for_group_value(group_id) ==
  LET kept == SelectSeq(transactions, LAMBDA e : e.group_id = group_id)
  IN [i \in 1..Len(kept) |-> TxValue(kept[i])]

get_transactions_for_group(caller, group_id, user_id) ==
  LET r == get_transactions_for_group_result(group_id, user_id)
  IN /\ last' = Call("get_transactions_for_group", caller, group_id, user_id, r,
                     IF r = Ok THEN get_transactions_for_group_value(group_id)
                     ELSE <<>>)
     /\ UNCHANGED <<ledger, block_timestamp, granted, revoked, sdk>>

(* The host starts a new block: the ledger timestamp grows. *)

AdvanceBlock ==
  /\ block_timestamp < MaxTime
  /\ block_timestamp' = block_timestamp + 1
  /\ last' = NoCall
  /\ UNCHANGED <<ledger, granted, revoked, sdk>>

-----------------------------------------------------------------------------
(* nova-sdk-rs: the composite workflows, up to their first call of the     *)
(* content store. *)

NoSigner == "no-signer"
Signers == Users \cup {NoSigner}

\* serde_json of a returned String: the text between two quote characters.
JsonString(text) == <<OtherChar>> \o text \o <<OtherChar>>

\* NovaSdk::get_group_key: a view query of get_group_key; the bytes of the
\* result are taken as the key text without parsing them.
sdk_get_group_key(group_id, user_id) ==
  LET r == get_group_key_result(InView, group_id)
  IN IF r = Ok
     THEN [ok |-> TRUE, value |-> JsonString(get_group_key_value(group_id))]
     ELSE [ok |-> FALSE, value |-> <<>>]

\* encrypt_data and decrypt_data: the check of the key before the cipher runs.
cipher_key_result(key_b64) ==
  IF ~Base64Decode(key_b64).ok THEN "InvalidKey"
  ELSE IF Len(Base64Decode(key_b64).bytes) # KeyLen THEN "InvalidKey"
  ELSE Ok

SdkCall(op, signer, group_id, user_id, result, calls) ==
  [op |-> op, caller |-> signer, group_id |-> group_id, user_id |-> user_id,
   result |-> result, ret |-> "-", calls |-> calls]

\* composite_upload, steps 1 and 2.  result Ok: the workflow goes on to
\* ipfs_upload.
composite_upload_result(group_id, user_id) ==
  LET k == sdk_get_group_key(group_id, user_id)
  IN IF ~k.ok THEN [result |-> "Near", calls |-> <<"get_group_key">>]
     ELSE IF cipher_key_result(k.value) # Ok
          THEN [result |-> "InvalidKey", calls |-> <<"get_group_key">>]
     ELSE [result |-> Ok, calls |-> <<"get_group_key", "ipfs_upload">>]

composite_upload(signer, group_id, user_id) ==
  LET r == composite_upload_result(group_id, user_id)
  IN /\ last' = SdkCall("composite_upload", signer, group_id, user_id,
                        r.result, r.calls)
     /\ UNCHANGED <<ledger, block_timestamp, granted, revoked, sdk>>

starts_with_Qm(cid) == Len(cid) >= 2 /\ cid[1] = "Q" /\ cid[2] = "m"

\* composite_retrieve, up to step 3.  result Ok: the workflow goes on to
\* ipfs_retrieve.
composite_retrieve_result(signer, group_id, cid) ==
  IF ~starts_with_Qm(cid) THEN [result |-> "Near", calls |-> <<>>]
  ELSE IF signer = NoSigner THEN [result |-> "Signing", calls |-> <<>>]
  ELSE LET k == sdk_get_group_key(group_id, signer)
       IN IF ~k.ok THEN [result |-> "Near", calls |-> <<"get_group_key">>]
          ELSE [result |-> Ok, calls |-> <<"get_group_key", "ipfs_retrieve">>]

composite_retrieve(signer, group_id, cid) ==
  LET r == composite_retrieve_result(signer, group_id, cid)
  IN /\ last' = SdkCall("composite_retrieve", signer, group_id, signer,
                        r.result, r.calls)
     /\ UNCHANGED <<ledger, block_timestamp, granted, revoked, sdk>>

-----------------------------------------------------------------------------
(* nova-sdk-rs: encrypt_data and decrypt_data, AES-256 in CBC mode with    *)
(* PKCS7 padding, the IV in front of the ciphertext, the whole in base64.  *)

BlockLen == 16

XorBlock(x, y) == Concrete([i \in 1..BlockLen |-> Xor(x[i], y[i])])

(* aes::Aes256, the block cipher of FIPS 197 with a key of 32 bytes and 14  *)
(* rounds.  A block is the 4 x 4 state column by column: byte i (from 0)   *)
(* is row i % 4 of column i \div 4.                                        *)

\* Multiplication by x in GF(2^8) modulo x^8 + x^4 + x^3 + x + 1.
xtime(a) == IF a < 128 THEN 2 * a ELSE Xor((2 * a) % ByteMod, 27)

\* Multiplication in GF(2^8), bit by bit of b from the lowest.
RECURSIVE GfMul(_, _)
GfMul(a, b) ==
  IF b = 0 THEN 0
  ELSE Xor(IF b % 2 = 1 THEN a ELSE 0, GfMul(xtime(a), b \div 2))

\* The inverse in GF(2^8), 0 for 0.
GfInv(a) ==
  IF a = 0 THEN 0 ELSE CHOOSE b \in 1..(ByteMod - 1) : GfMul(a, b) = 1

RotL8(b, k) == ((b * (2 ^ k)) % ByteMod) + (b \div (2 ^ (8 - k)))

\* The affine map of the S-box.
SBoxAffine(b) ==
  Xor(Xor(Xor(b, RotL8(b, 1)), Xor(RotL8(b, 2), RotL8(b, 3))),
      Xor(RotL8(b, 4), 99))

\* The S-box: the inverse in the field, then the affine map.
SBox == [a \in 0..(ByteMod - 1) |-> SBoxAffine(GfInv(a))] @@ <<>>

InvSBox ==
  [v \in 0..(ByteMod - 1) |->
     CHOOSE a \in 0..(ByteMod - 1) : SBox[a] = v] @@ <<>>

\* The products of the columns' factors, those of MixColumns (1, 2, 3) and
\* of its inverse (9, 11, 13, 14).
MixProducts ==
  [f \in 1..14 |-> [a \in 0..(ByteMod - 1) |-> GfMul(a, f)] @@ <<>>] @@ <<>>

SubWord(w) == Concrete([i \in 1..4 |-> SBox[w[i]]])
RotWord(w) == <<w[2], w[3], w[4], w[1]>>
XorWord(x, y) == Concrete([i \in 1..4 |-> Xor(x[i], y[i])])

Rcon == <<1, 2, 4, 8, 16, 32, 64>>

\* The key schedule: 60 words of 4 bytes, the first 8 the key itself.
RECURSIVE ExpandKey(_)
ExpandKey(w) ==
  LET i == Len(w)
  IN IF i = 60 THEN w
     ELSE LET t == w[i]
              u == IF i % 8 = 0
                     THEN XorWord(SubWord(RotWord(t)),
                                  <<Rcon[i \div 8], 0, 0, 0>>)
                   ELSE IF i % 8 = 4 THEN SubWord(t)
                   ELSE t
          IN ExpandKey(Append(w, XorWord(w[i - 7], u)))

KeyExpansion(k) == ExpandKey([i \in 1..8 |-> SubSeq(k, 4 * i - 3, 4 * i)])

RoundKey(w, r) == w[4 * r + 1] \o w[4 * r + 2] \o w[4 * r + 3] \o w[4 * r + 4]

SubBytes(st) == Concrete([i \in 1..BlockLen |-> SBox[st[i]]])
InvSubBytes(st) == Concrete([i \in 1..BlockLen |-> InvSBox[st[i]]])

\* Row r moves r places to the left, and back.
ShiftRows(st) ==
  Concrete([i \in 1..BlockLen |->
              LET r == (i - 1) % 4
                  c == (i - 1) \div 4
              IN st[4 * ((c + r) % 4) + r + 1]])

InvShiftRows(st) ==
  Concrete([i \in 1..BlockLen |->
              LET r == (i - 1) % 4
                  c == (i - 1) \div 4
              IN st[4 * ((c + 4 - r) % 4) + r + 1]])

\* Every column multiplied by the circulant matrix of first row m.
MixWith(m, st) ==
  Concrete([i \in 1..BlockLen |->
              LET r == (i - 1) % 4
                  c == (i - 1) \div 4
                  p(j) == MixProducts[m[((j + 4 - r) % 4) + 1]][st[4 * c + j + 1]]
              IN Xor(Xor(p(0), p(1)), Xor(p(2), p(3)))])

MixColumns(st) == MixWith(<<2, 3, 1, 1>>, st)
InvMixColumns(st) == MixWith(<<14, 11, 13, 9>>, st)

\* Rounds r to 14 of the cipher; the state of a round is computed before
\* the next round is entered.
RECURSIVE EncryptRounds(_, _, _)
EncryptRounds(w, st, r) ==
  IF r = 14 \/ Len(st) # BlockLen
    THEN XorBlock(ShiftRows(SubBytes(st)), RoundKey(w, 14))
  ELSE EncryptRounds(w, XorBlock(MixColumns(ShiftRows(SubBytes(st))),
                                 RoundKey(w, r)), r + 1)

\* Rounds r down to 0 of the inverse cipher.
RECURSIVE DecryptRounds(_, _, _)
DecryptRounds(w, st, r) ==
  IF r = 0 \/ Len(st) # BlockLen
    THEN XorBlock(InvSubBytes(InvShiftRows(st)), RoundKey(w, 0))
  ELSE DecryptRounds(w, InvMixColumns(XorBlock(InvSubBytes(InvShiftRows(st)),
                                               RoundKey(w, r))), r - 1)

AesEncryptWith(w, blk) == EncryptRounds(w, XorBlock(blk, RoundKey(w, 0)), 1)
AesDecryptWith(w, blk) == DecryptRounds(w, XorBlock(blk, RoundKey(w, 14)), 13)

AesEncryptBlock(k, blk) == AesEncryptWith(KeyExpansion(k), blk)
AesDecryptBlock(k, blk) == AesDecryptWith(KeyExpansion(k), blk)

\* Pkcs7 padding without a pad block after data that fills its last block.
Pkcs7Pad_NoFullBlock(data) ==
  LET n == (BlockLen - (Len(data) % BlockLen)) % BlockLen
  IN data \o [i \in 1..n |-> n]

\* Pkcs7: n bytes of value n, n in 1..16, up to the next block boundary.
Pkcs7Pad(data) ==
  LET n == BlockLen - (Len(data) % BlockLen)
  IN data \o [i \in 1..n |-> n]

\* An unpad that trusts the last byte: it strips that many bytes without
\* comparing them.
Pkcs7Unpad_LastByteOnly(buf) ==
  LET len == Len(buf)
      n == IF len = 0 THEN 0 ELSE buf[len]
  IN IF len = 0 \/ n = 0 \/ n > len
       THEN [ok |-> FALSE, bytes |-> <<>>]
     ELSE [ok |-> TRUE, bytes |-> SubSeq(buf, 1, len - n)]

\* Pkcs7 unpad of whole blocks; ok is FALSE on malformed padding.
Pkcs7Unpad(buf) ==
  LET len == Len(buf)
      n == IF len = 0 THEN 0 ELSE buf[len]
  IN IF len = 0 \/ n = 0 \/ n > BlockLen
       THEN [ok |-> FALSE, bytes |-> <<>>]
     ELSE IF \E i \in (len - n + 1)..len : buf[i] # n
       THEN [ok |-> FALSE, bytes |-> <<>>]
     ELSE [ok |-> TRUE, bytes |-> SubSeq(buf, 1, len - n)]

\* CBC over whole blocks; prev is the IV, then the last ciphertext block.
RECURSIVE CbcEncrypt(_, _, _)
CbcEncrypt(k, prev, pt) ==
  IF Len(pt) = 0 THEN <<>>
  ELSE LET c == AesEncryptBlock(k, XorBlock(SubSeq(pt, 1, BlockLen), prev))
       IN c \o CbcEncrypt(k, c, SubSeq(pt, BlockLen + 1, Len(pt)))

RECURSIVE CbcDecrypt(_, _, _)
CbcDecrypt(k, prev, ct) ==
  IF Len(ct) = 0 THEN <<>>
  ELSE LET c == SubSeq(ct, 1, BlockLen)
       IN XorBlock(AesDecryptBlock(k, c), prev)
          \o CbcDecrypt(k, c, SubSeq(ct, BlockLen + 1, Len(ct)))

CodecErr(e) == [ok |-> FALSE, err |-> e, value |-> <<>>]
CodecOk(v) == [ok |-> TRUE, err |-> "-", value |-> v]

\* encrypt_data(data, key_b64) with the IV the random generator gave.
\* The buffer has room for the data and one block of padding.
encrypt_data_computed(data, key_b64, iv) ==
  IF cipher_key_result(key_b64) # Ok THEN CodecErr("InvalidKey")
  ELSE LET key == Base64Decode(key_b64).bytes
           padded == Pkcs7Pad(data)
       IN IF Len(padded) > Len(data) + BlockLen
            THEN CodecErr("Near: Encryption failed")
          ELSE CodecOk(Base64Encode(iv \o CbcEncrypt(key, iv, padded)))

\* The length test of decrypt_data taken after the IV is set aside: a
\* payload passes only if a whole block follows the IV.
payload_too_short_AfterIv(encrypted_bytes) ==
  Len(encrypted_bytes) - BlockLen < BlockLen

\* encrypted_bytes.len() < 16: the payload holds no whole IV.
payload_too_short(encrypted_bytes) == Len(encrypted_bytes) < BlockLen

\* decrypt_data(encrypted_b64, key_b64): the value returned is the base64
\* text of the decrypted bytes.
decrypt_data_computed(encrypted_b64, key_b64) ==
  IF cipher_key_result(key_b64) # Ok THEN CodecErr("InvalidKey")
  ELSE LET key == Base64Decode(key_b64).bytes
           encrypted == Base64Decode(encrypted_b64)
       IN IF ~encrypted.ok THEN CodecErr("InvalidKey")
          ELSE IF payload_too_short(encrypted.bytes)
            THEN CodecErr("InvalidKey")
          ELSE LET iv == SubSeq(encrypted.bytes, 1, BlockLen)
                   ciphertext == SubSeq(encrypted.bytes, BlockLen + 1,
                                        Len(encrypted.bytes))
               IN IF Len(ciphertext) % BlockLen # 0
                    THEN CodecErr("Near: Decryption failed")
                  ELSE LET decrypted ==
                             Pkcs7Unpad(CbcDecrypt(key, iv, ciphertext))
                       IN IF ~decrypted.ok
                            THEN CodecErr("Near: Decryption failed")
                          ELSE CodecOk(Base64Encode(decrypted.bytes))

\* The keys of the workflows, as the ledger holds them: the key the owner
\* stores and the key a revocation leaves.  The IV the client draws.
FlowKeys == {OwnerKey, rotated_key(RotationSeed)}
FlowIVs == { [i \in 1..BlockLen |-> ByteMod - i] }

\* The results of the encryptions and decryptions of the workflows.  They
\* are computed once; encrypt_data_result is encrypt_data_computed and
\* decrypt_data_result is decrypt_data_computed on every input.
EncryptionsOf(inputs) ==
  [x \in inputs |-> encrypt_data_computed(x[1], x[2], x[3])] @@ <<>>

DecryptionsOf(inputs) ==
  [x \in inputs |-> decrypt_data_computed(x[1], x[2])] @@ <<>>

KnownEncryptions == EncryptionsOf(FlowData \X FlowKeys \X FlowIVs)

TextsOf(encryptions) == {encryptions[x].value : x \in DOMAIN encryptions}

KnownDecryptions == DecryptionsOf(TextsOf(KnownEncryptions) \X FlowKeys)

EncryptionIn(encryptions, x) ==
  IF x \in DOMAIN encryptions THEN encryptions[x]
  ELSE encrypt_data_computed(x[1], x[2], x[3])

DecryptionIn(decryptions, x) ==
  IF x \in DOMAIN decryptions THEN decryptions[x]
  ELSE decrypt_data_computed(x[1], x[2])

encrypt_data_result(data, key_b64, iv) ==
  EncryptionIn(KnownEncryptions, <<data, key_b64, iv>>)

decrypt_data_result(encrypted_b64, key_b64) ==
  DecryptionIn(KnownDecryptions, <<encrypted_b64, key_b64>>)

\* Plaintexts: none, the six bytes of the binary test, one byte short of a
\* block, a whole block of bytes that read as padding, a block and a byte
\* (the block ends in a byte that reads as a pad length).
DataInputs ==
  { <<>>,
    <<255, 216, 255, 224, 0, 16>>,
    [i \in 1..(BlockLen - 1) |-> 1],
    [i \in 1..BlockLen |-> BlockLen],
    [i \in 1..(BlockLen + 1) |-> i] }

\* Keys: two of 32 bytes and one of 31.
CodecKeys ==
  { Base64Encode(Bytes32(0)),
    Base64Encode([i \in 1..KeyLen |-> i]),
    Base64Encode([i \in 1..(KeyLen - 1) |-> 0]) }

IVs == { [i \in 1..BlockLen |-> 0], [i \in 1..BlockLen |-> ByteMod - i] }

\* What a caller may hand to decrypt_data after an encryption: the text
\* returned, its first five quads (15 bytes), all but its last quad, and
\* the text of the payload without its last block.
CipherInputs(text) ==
  { text, SubSeq(text, 1, 20), SubSeq(text, 1, Len(text) - 4),
    LET b == Base64Decode(text).bytes
    IN Base64Encode(SubSeq(b, 1, Len(b) - BlockLen)) }

\* What a caller may hand to decrypt_data without an encryption before:
\* three bytes, text that is not base64, an IV and nothing else, an IV and
\* one block.
FreshCipherInputs ==
  { <<0, 0, 0, 0>>,
    <<0, 0, OtherChar, 0>>,
    Base64Encode([i \in 1..BlockLen |-> 0]),
    Base64Encode([i \in 1..(2 * BlockLen) |-> i]) }

encrypt_data(data, key_b64, iv) ==
  /\ sdk.pc = "idle"
  /\ sdk' = [pc |-> "encrypted", data |-> data, key |-> key_b64, iv |-> iv,
             out |-> encrypt_data_result(data, key_b64, iv)]
  /\ UNCHANGED <<ledger, block_timestamp, granted, revoked, last>>

\* decrypt_data keeps nothing of the client: it may follow an encryption,
\* whose data, key, IV and text the caller then still holds, or be the
\* first call made.
decrypt_data(encrypted_b64, key_b64) ==
  /\ sdk.pc \in {"idle", "encrypted"}
  /\ LET after == sdk.pc = "encrypted"
     IN sdk' = [pc |-> "decrypted",
                data |-> IF after THEN sdk.data ELSE <<>>,
                key |-> IF after THEN sdk.key ELSE <<>>,
                iv |-> IF after THEN sdk.iv ELSE <<>>,
                encrypted |-> encrypted_b64,
                whole |-> (after /\ encrypted_b64 = sdk.out.value),
                dkey |-> key_b64,
                out |-> decrypt_data_result(encrypted_b64, key_b64)]
  /\ UNCHANGED <<ledger, block_timestamp, granted, revoked, last>>

\* The call returns to the caller.
SdkReturn ==
  /\ sdk.pc \in {"encrypted", "decrypted", "done"}
  /\ sdk' = SdkIdle
  /\ UNCHANGED <<ledger, block_timestamp, granted, revoked, last>>

-----------------------------------------------------------------------------
(* nova-sdk-rs: ipfs_retrieve, the bounded retry against the Pinata        *)
(* gateway and the single attempt against the public gateway.  Texts are   *)
(* sequences of characters.                                                *)

MaxRetries == 3
BackoffBase == 2

\* Display of NovaError::Near.
NearDisplay ==
  <<"N", "e", "a", "r", " ", "R", "P", "C", " ", "e", "r", "r", "o", "r",
    ":", " ">>

IpfsRetrieveFailed ==
  <<"I", "P", "F", "S", " ", "r", "e", "t", "r", "i", "e", "v", "e", " ",
    "f", "a", "i", "l", "e", "d", ":", " ">>

IpfsReadFailed ==
  <<"I", "P", "F", "S", " ", "r", "e", "a", "d", " ", "f", "a", "i", "l",
    "e", "d", ":", " ">>

PublicFallbackFailed ==
  <<"P", "u", "b", "l", "i", "c", " ", "I", "P", "F", "S", " ", "f", "a",
    "l", "l", "b", "a", "c", "k", " ", "f", "a", "i", "l", "e", "d", ":",
    " ">>

PublicReadFailed ==
  <<"P", "u", "b", "l", "i", "c", " ", "I", "P", "F", "S", " ", "r", "e",
    "a", "d", " ", "f", "a", "i", "l", "e", "d", ":", " ">>

Timeout ==
  <<"t", "i", "m", "e", "o", "u", "t">>

\* What the transport may print for a failed request.
ErrorDetails ==
  { Timeout,
    <<"t", "i", "m", "e", "d", " ", "o", "u", "t">>,
    <<"r", "e", "f", "u", "s", "e", "d">> }

\* Bodies a gateway may deliver; the status of the response is not looked at.
Payloads == { <<>>, <<1, 2, 3>> }

\* One request as the transport ends it: a response whose body was read, a
\* failure of send, or a failure while the body is read.
TransportOutcomes ==
  { [stage |-> "ok", bytes |-> b, detail |-> <<>>] : b \in Payloads }
  \cup { [stage |-> st, bytes |-> <<>>, detail |-> d] :
           st \in {"send", "bytes"}, d \in ErrorDetails }

RetrieveOk(v) == [ok |-> TRUE, err |-> "-", text |-> <<>>, value |-> v]
RetrieveErr(t) == [ok |-> FALSE, err |-> "Near", text |-> t, value |-> <<>>]

\* str::contains
contains(text, pat) ==
  \E i \in 1..(Len(text) - Len(pat) + 1) :
    SubSeq(text, i, i + Len(pat) - 1) = pat

\* e.to_string() of a NovaError::Near.
to_string(e) == NearDisplay \o e.text

inner_retrieve_result(o) ==
  IF o.stage = "send" THEN RetrieveErr(IpfsRetrieveFailed \o o.detail)
  ELSE IF o.stage = "bytes" THEN RetrieveErr(IpfsReadFailed \o o.detail)
  ELSE RetrieveOk(Base64Encode(o.bytes))

public_retrieve_result(o) ==
  IF o.stage = "send" THEN RetrieveErr(PublicFallbackFailed \o o.detail)
  ELSE IF o.stage = "bytes" THEN RetrieveErr(PublicReadFailed \o o.detail)
  ELSE RetrieveOk(Base64Encode(o.bytes))

\* Every error is taken for a timeout.
is_timeout_AnyError(e) == TRUE

\* The guard of the retry arm.
is_timeout(e) == contains(to_string(e), Timeout)

\* The loop takes one turn more.
loop_condition_Inclusive(retries) == retries <= MaxRetries

\* while retries < 3
loop_condition(retries) == retries < MaxRetries

\* The sleep grows by two seconds a turn.
backoff_secs_Linear(retries) == BackoffBase * retries

\* Duration::from_secs(2u64.pow(retries))
backoff_secs(retries) == BackoffBase ^ retries

Attempt(gateway, r) ==
  [gateway |-> gateway, ok |-> r.ok, text |-> r.text, value |-> r.value]

\* The call starts: let mut retries = 0.
ipfs_retrieve(cid) ==
  /\ sdk.pc = "idle"
  /\ sdk' = [pc |-> "loop", op |-> "ipfs_retrieve", cid |-> cid,
             retries |-> 0, attempts |-> <<>>, sleeps |-> <<>>,
             out |-> RetrieveOk(<<>>)]
  /\ UNCHANGED <<ledger, block_timestamp, granted, revoked, last>>

\* Where a result of ipfs_retrieve goes: to the caller, or on with the
\* "?" of composite_retrieve.
retrieve_end(r) ==
  IF sdk.op = "composite_retrieve" /\ r.ok THEN "decrypt" ELSE "done"

\* One turn of the loop: a request to the primary gateway and the match on
\* its result.  The retry arm counts the timeout and goes to sleep.
retrieve_attempt(o) ==
  /\ sdk.pc = "loop"
  /\ loop_condition(sdk.retries)
  /\ LET r == inner_retrieve_result(o)
         tried == Append(sdk.attempts, Attempt("primary", r))
     IN IF r.ok
          THEN sdk' = [sdk EXCEPT !.pc = retrieve_end(r), !.attempts = tried,
                                  !.out = r]
        ELSE IF is_timeout(r)
          THEN sdk' = [sdk EXCEPT !.pc = "sleep", !.attempts = tried,
                                  !.retries = sdk.retries + 1]
        ELSE sdk' = [sdk EXCEPT !.pc = retrieve_end(r), !.attempts = tried,
                                !.out = r]
  /\ UNCHANGED <<ledger, block_timestamp, granted, revoked, last>>

\* The sleep of the retry arm ends: the loop tests its condition again.
retrieve_sleep ==
  /\ sdk.pc = "sleep"
  /\ sdk' = [sdk EXCEPT !.pc = "loop",
                        !.sleeps = Append(sdk.sleeps, backoff_secs(sdk.retries))]
  /\ UNCHANGED <<ledger, block_timestamp, granted, revoked, last>>

\* After the loop: one request to the public gateway, whose result is the
\* result of the call.
retrieve_fallback(o) ==
  /\ sdk.pc = "loop"
  /\ ~loop_condition(sdk.retries)
  /\ LET r == public_retrieve_result(o)
     IN sdk' = [sdk EXCEPT !.pc = retrieve_end(r),
                           !.attempts = Append(sdk.attempts,
                                               Attempt("public", r)),
                           !.out = r]
  /\ UNCHANGED <<ledger, block_timestamp, granted, revoked, last>>

-----------------------------------------------------------------------------
(* nova-sdk-rs: the calls of the SDK.  A signed call is one step of the    *)
(* model from each await of a request to the next.  The JSON-RPC node and  *)
(* the pinning service are the environment of the client: rpc_url,         *)
(* contract_id and the pinning credentials are parameters of NovaSdk::new. *)

FlowErr(kind, text) == [ok |-> FALSE, err |-> kind, text |-> text, value |-> <<>>]
FlowOk(v) == [ok |-> TRUE, err |-> "-", text |-> <<>>, value |-> v]

Success ==
  <<"S", "u", "c", "c", "e", "s", "s">>

NoSignerAttached ==
  <<"N", "o", " ", "s", "i", "g", "n", "e", "r", " ", "a", "t", "t", "a",
    "c", "h", "e", "d">>

TransactionFailed ==
  <<"T", "r", "a", "n", "s", "a", "c", "t", "i", "o", "n", " ", "f", "a",
    "i", "l", "e", "d">>

TransactionFailedNoValue ==
  <<"T", "r", "a", "n", "s", "a", "c", "t", "i", "o", "n", " ", "f", "a",
    "i", "l", "e", "d", " ", "-", " ", "n", "o", " ", "r", "e", "t", "u",
    "r", "n", " ", "v", "a", "l", "u", "e">>

\* The characters of a text, in order.
to_chars(text) == [i \in 1..Len(text) |-> SubSeq(text, i, i)] \o <<>>

\* The characters with the codes 32 to 95 and 97 to 126.
AsciiLow ==
  " !\"#$%&'()*+,-./0123456789:;<=>?@ABCDEFGHIJKLMNOPQRSTUVWXYZ[\\]^_"

AsciiHigh == "abcdefghijklmnopqrstuvwxyz{|}~"

\* The character with a code point: itself where a text of the model can
\* hold it, its code point elsewhere.
from_u32(code) ==
  IF code >= 32 /\ code <= 95 THEN SubSeq(AsciiLow, code - 31, code - 31)
  ELSE IF code >= 97 /\ code <= 126
    THEN SubSeq(AsciiHigh, code - 96, code - 96)
  ELSE "U+" \o ToString(code)

\* core::str::validations, UTF8_CHAR_WIDTH: the width of the character a
\* first byte opens, 0 for a byte that opens none.
utf8_char_width(b) ==
  IF b < 128 THEN 1
  ELSE IF b >= 194 /\ b <= 223 THEN 2
  ELSE IF b >= 224 /\ b <= 239 THEN 3
  ELSE IF b >= 240 /\ b <= 244 THEN 4
  ELSE 0

utf8_is_cont_byte(b) == b >= 128 /\ b <= 191

\* The second byte a first byte admits: no overlong form, no surrogate and
\* nothing above U+10FFFF.
utf8_second_byte(first, next) ==
  IF first = 224 THEN next >= 160 /\ next <= 191
  ELSE IF first = 237 THEN next >= 128 /\ next <= 159
  ELSE IF first = 240 THEN next >= 144 /\ next <= 191
  ELSE IF first = 244 THEN next >= 128 /\ next <= 143
  ELSE utf8_is_cont_byte(next)

\* run_utf8_validation at the character that opens at position p and
\* announces width w: -1 for a character, or the error_len of Utf8Error,
\* 0 standing for None (the input ended within the character).
utf8_error_len(v, p, w) ==
  IF w = 0 THEN 1
  ELSE IF w = 1 THEN -1
  ELSE IF p + 1 > Len(v) THEN 0
  ELSE IF ~utf8_second_byte(v[p], v[p + 1]) THEN 1
  ELSE IF w = 2 THEN -1
  ELSE IF p + 2 > Len(v) THEN 0
  ELSE IF ~utf8_is_cont_byte(v[p + 2]) THEN 2
  ELSE IF w = 3 THEN -1
  ELSE IF p + 3 > Len(v) THEN 0
  ELSE IF ~utf8_is_cont_byte(v[p + 3]) THEN 3
  ELSE -1

\* The code point of the character of width w at position p.
utf8_code_point(v, p, w) ==
  IF w = 1 THEN v[p]
  ELSE IF w = 2 THEN (v[p] - 192) * 64 + (v[p + 1] - 128)
  ELSE IF w = 3
    THEN (v[p] - 224) * 4096 + (v[p + 1] - 128) * 64 + (v[p + 2] - 128)
  ELSE (v[p] - 240) * 262144 + (v[p + 1] - 128) * 4096
         + (v[p + 2] - 128) * 64 + (v[p + 3] - 128)

\* String::from_utf8 from position p on, chars read so far: the text, or
\* the Utf8Error with valid_up_to and error_len.
RECURSIVE from_utf8_at(_, _, _)
from_utf8_at(v, p, chars) ==
  IF p > Len(v)
    THEN [ok |-> TRUE, value |-> chars, valid_up_to |-> Len(v), error_len |-> 0]
  ELSE IF utf8_error_len(v, p, utf8_char_width(v[p])) >= 0
    THEN [ok |-> FALSE, value |-> <<>>, valid_up_to |-> p - 1,
          error_len |-> utf8_error_len(v, p, utf8_char_width(v[p]))]
  ELSE from_utf8_at(v, p + utf8_char_width(v[p]),
                    Append(chars,
                           from_u32(utf8_code_point(v, p,
                                                    utf8_char_width(v[p])))))

from_utf8(v) == from_utf8_at(v, 1, <<>>)

\* Display of Utf8Error.
utf8_error_to_string(e) ==
  IF e.error_len # 0
    THEN to_chars("invalid utf-8 sequence of " \o ToString(e.error_len)
                    \o " bytes from index " \o ToString(e.valid_up_to))
  ELSE to_chars("incomplete utf-8 byte sequence from index "
                  \o ToString(e.valid_up_to))

\* String::from_utf8(value.clone()).map_err(|e| NovaError::Near(e.to_string()))
from_utf8_or_near(v) ==
  IF from_utf8(v).ok THEN FlowOk(from_utf8(v).value)
  ELSE FlowErr("Near", utf8_error_to_string(from_utf8(v)))

\* ExecutionStatusView; the value of SuccessValue is a sequence of bytes.
SuccessValue(v) == [status |-> "SuccessValue", value |-> v]
SuccessReceiptId == [status |-> "SuccessReceiptId", value |-> <<>>]
Failure == [status |-> "Failure", value |-> <<>>]

parse_outcome(status) ==
  IF status.status = "SuccessValue"
    THEN IF Len(status.value) # 0 THEN from_utf8_or_near(status.value)
         ELSE FlowOk(Success)
  ELSE IF status.status = "SuccessReceiptId" THEN FlowOk(Success)
  ELSE FlowErr("Near", TransactionFailed)

parse_outcome_detailed(status) ==
  IF status.status = "SuccessValue" THEN from_utf8_or_near(status.value)
  ELSE FlowErr("Near", TransactionFailedNoValue)

\* NovaSdk::record_transaction, the reading of the outcome: the error of
\* parse_outcome_detailed is dropped and parse_outcome asked.
sdk_record_outcome(status) ==
  IF parse_outcome_detailed(status).ok THEN parse_outcome_detailed(status)
  ELSE parse_outcome(status)

\* outcome.transaction_outcome.outcome.status of a transaction the node has
\* committed: the transaction became the receipt that carries the function
\* call, whatever the function call then does.
transaction_outcome_status == SuccessReceiptId

\* FinalExecutionOutcomeView, the answer of broadcast_tx_commit: the outcome
\* of the transaction and the result of the function call of its receipt.
FinalExecutionOutcome(result) ==
  [transaction_outcome |-> transaction_outcome_status, status |-> result]

\* No answer yet.
NoOutcome ==
  [transaction_outcome |-> [status |-> "-", value |-> <<>>], status |-> "-"]

\* What self.client.call(..).await gives for the block and for the
\* transaction: the response of the node, or an error of the transport or
\* of the node.
RpcAnswers == {"ok", "rpc error"}

\* The answers to the query of the access key: a response of kind
\* AccessKey, a response of another kind, or an error.
AccessKeyAnswers == {"AccessKey", "other kind", "rpc error"}

RpcFailed ==
  <<"r", "p", "c", " ", "e", "r", "r", "o", "r">>

InvalidAccessKeyResponse ==
  <<"I", "n", "v", "a", "l", "i", "d", " ", "a", "c", "c", "e", "s", "s",
    " ", "k", "e", "y", " ", "r", "e", "s", "p", "o", "n", "s", "e">>

\* execute_contract_call that builds the transaction without asking for the
\* signer.
signer_check_Skip(signer) == FlowOk(signer)

\* self.signer.as_ref().ok_or(Signing("No signer attached")), the first
\* statement of execute_contract_call and of execute_transfer.
signer_check(signer) ==
  IF signer = NoSigner THEN FlowErr("Signing", NoSignerAttached)
  ELSE FlowOk(signer)

\* AccountId::from_str: 2 to 64 characters, lower case letters and digits
\* with single separators between them.
AccountIdChars ==
  {"a", "b", "c", "d", "e", "f", "g", "h", "i", "j", "k", "l", "m", "n", "o",
   "p", "q", "r", "s", "t", "u", "v", "w", "x", "y", "z",
   "0", "1", "2", "3", "4", "5", "6", "7", "8", "9"}

AccountIdSeparators == {"-", "_", "."}

is_valid_account_id(a) ==
  /\ Len(a) >= 2
  /\ Len(a) <= 64
  /\ \A i \in 1..Len(a) : a[i] \in AccountIdChars \cup AccountIdSeparators
  /\ a[1] \notin AccountIdSeparators
  /\ a[Len(a)] \notin AccountIdSeparators
  /\ \A i \in 1..(Len(a) - 1) :
       ~(a[i] \in AccountIdSeparators /\ a[i + 1] \in AccountIdSeparators)

\* What the node answers to the view call of get_group_key: an error, which
\* is the answer of a view that asks for its predecessor account
\* (sdk_get_group_key), or the result bytes of a ledger that serves the
\* group's key, as text or as the JSON of a text.
KeyAnswers(group_id, user_id) ==
  { [ok |-> FALSE, value |-> <<>>], sdk_get_group_key(group_id, user_id) }
  \cup (IF group_id \in DOMAIN groups /\ groups[group_id].group_key.is_some
          THEN { [ok |-> TRUE, value |-> get_group_key_value(group_id)],
                 [ok |-> TRUE,
                  value |-> JsonString(get_group_key_value(group_id))] }
          ELSE {})

IpfsUploadFailed ==
  <<"I", "P", "F", "S", " ", "u", "p", "l", "o", "a", "d", " ", "f", "a",
    "i", "l", "e", "d", ":", " ">>

IpfsResponseParseFailed ==
  <<"I", "P", "F", "S", " ", "r", "e", "s", "p", "o", "n", "s", "e", " ",
    "p", "a", "r", "s", "e", " ", "f", "a", "i", "l", "e", "d", ":", " ">>

NoIpfsHash ==
  <<"N", "o", " ", "I", "p", "f", "s", "H", "a", "s", "h", " ", "i", "n",
    " ", "r", "e", "s", "p", "o", "n", "s", "e">>

\* One POST to the pinning service as the transport ends it: a failure of
\* send, a body that is no JSON, a JSON without a text under "IpfsHash", or
\* a JSON with one.
PinOutcomes ==
  { [stage |-> st, detail |-> d, cid |-> <<>>] :
      st \in {"send", "json"}, d \in ErrorDetails }
  \cup { [stage |-> "no hash", detail |-> <<>>, cid |-> <<>>] }
  \cup { [stage |-> "ok", detail |-> <<>>, cid |-> c] : c \in Cids }

\* ipfs_upload that asks again after an error of send.
ipfs_upload_posts_RetrySend(data_b64, o) ==
  IF ~Base64Decode(data_b64).ok THEN 0
  ELSE IF o.stage = "send" THEN 2
  ELSE 1

\* The number of POST requests ipfs_upload sends.
ipfs_upload_posts(data_b64, o) ==
  IF ~Base64Decode(data_b64).ok THEN 0 ELSE 1

ipfs_upload_result(data_b64, o) ==
  IF ~Base64Decode(data_b64).ok THEN FlowErr("InvalidKey", <<>>)
  ELSE IF o.stage = "send" THEN FlowErr("Near", IpfsUploadFailed \o o.detail)
  ELSE IF o.stage = "json"
    THEN FlowErr("Near", IpfsResponseParseFailed \o o.detail)
  ELSE IF o.stage = "no hash" THEN FlowErr("Near", NoIpfsHash)
  ELSE FlowOk(o.cid)

FlowFrame == UNCHANGED <<ledger, block_timestamp, granted, revoked, last>>

Ended(calls, posts, out) ==
  [sdk EXCEPT !.pc = "done", !.calls = calls, !.posts = posts, !.out = out]

\* composite_upload, steps 1 and 2: the key is fetched and the data
\* encrypted under the text received.
composite_upload_start(signer, group_id, user_id, data, a, iv) ==
  /\ sdk.pc = "idle"
  /\ LET call == [pc |-> "put", op |-> "composite_upload", signer |-> signer,
                  group_id |-> group_id, user_id |-> user_id, data |-> data,
                  key |-> <<>>, iv |-> iv, encrypted |-> <<>>, cid |-> <<>>,
                  file_hash |-> "", posts |-> 0,
                  method_name |-> "record_transaction",
                  args |-> [group_id |-> group_id, user_id |-> user_id,
                            file_hash |-> "", ipfs_hash |-> ""],
                  outcome |-> NoOutcome,
                  calls |-> <<"get_group_key">>, out |-> FlowOk(<<>>)]
         e == encrypt_data_result(data, a.value, iv)
     IN IF ~a.ok
          THEN sdk' = [call EXCEPT !.pc = "done", !.out = FlowErr("Near", <<>>)]
        ELSE IF ~e.ok
          THEN sdk' = [call EXCEPT !.pc = "done", !.key = a.value,
                         !.calls = <<"get_group_key", "encrypt_data">>,
                         !.out = FlowErr(e.err, <<>>)]
        ELSE sdk' = [call EXCEPT !.key = a.value, !.encrypted = e.value,
                       !.calls = <<"get_group_key", "encrypt_data">>]
  /\ FlowFrame

\* The hash is taken of what was pinned.
upload_file_hash_OfCiphertext(data, encrypted_b64) ==
  Text(hex_encode(sha256_hash(Base64Decode(encrypted_b64).bytes)))

\* hex_encode(&sha256_hash(data))
upload_file_hash(data, encrypted_b64) == Text(hex_encode(sha256_hash(data)))

\* CompositeUploadResult
UploadResult(cid, tid, file_hash) ==
  [cid |-> cid, trans_id |-> tid, file_hash |-> file_hash]

\* execute_contract_call and execute_transfer up to their first await: the
\* signer is asked for, then the query of its access key leaves the client.
execute_contract_call(call) ==
  IF ~signer_check(call.signer).ok
    THEN [call EXCEPT !.pc = "done", !.out = signer_check(call.signer)]
  ELSE [call EXCEPT !.pc = "view_access_key",
                    !.calls = Append(call.calls, "view_access_key")]

\* composite_upload that goes on to record_transaction after a put that
\* failed.
composite_upload_put_IgnoreError(o) ==
  /\ sdk.pc = "put"
  /\ LET r == ipfs_upload_result(sdk.encrypted, o)
     IN sdk' = execute_contract_call(
                 [sdk EXCEPT
                    !.cid = r.value,
                    !.posts = sdk.posts + ipfs_upload_posts(sdk.encrypted, o),
                    !.file_hash = upload_file_hash(sdk.data, sdk.encrypted),
                    !.args = [sdk.args EXCEPT
                                !.file_hash = upload_file_hash(sdk.data,
                                                               sdk.encrypted),
                                !.ipfs_hash = Text(r.value)],
                    !.calls = sdk.calls \o <<"ipfs_upload", "sha256_hash",
                                             "record_transaction">>])
  /\ FlowFrame

\* composite_upload, steps 3 and 4 and the call of step 5: the answer of the
\* pinning service, the hash of the plaintext, and record_transaction up to
\* its first await.
composite_upload_put(o) ==
  /\ sdk.pc = "put"
  /\ LET r == ipfs_upload_result(sdk.encrypted, o)
         posts == sdk.posts + ipfs_upload_posts(sdk.encrypted, o)
         calls == Append(sdk.calls, "ipfs_upload")
     IN IF ~r.ok
          THEN sdk' = Ended(calls, posts, r)
        ELSE sdk' = execute_contract_call(
                      [sdk EXCEPT
                         !.cid = r.value, !.posts = posts,
                         !.file_hash = upload_file_hash(sdk.data, sdk.encrypted),
                         !.args = [sdk.args EXCEPT
                                     !.file_hash = upload_file_hash(sdk.data,
                                                                    sdk.encrypted),
                                     !.ipfs_hash = Text(r.value)],
                         !.calls = calls \o <<"sha256_hash",
                                              "record_transaction">>])
  /\ FlowFrame

\* The signed calls of the client: register_group, add_group_member,
\* revoke_group_member, store_group_key, record_transaction and
\* transfer_tokens, up to the first await of execute_contract_call.
SignedCall(op, signer, method_name, args) ==
  execute_contract_call([pc |-> "idle", op |-> op, signer |-> signer,
                         method_name |-> method_name, args |-> args,
                         calls |-> <<>>, outcome |-> NoOutcome,
                         out |-> FlowOk(<<>>)])

sdk_register_group(signer, group_id) ==
  /\ sdk.pc = "idle"
  /\ sdk' = SignedCall("register_group", signer, "register_group",
                       [group_id |-> group_id])
  /\ FlowFrame

sdk_add_group_member(signer, group_id, user_id) ==
  /\ sdk.pc = "idle"
  /\ sdk' = SignedCall("add_group_member", signer, "add_group_member",
                       [group_id |-> group_id, user_id |-> user_id])
  /\ FlowFrame

sdk_revoke_group_member(signer, group_id, user_id) ==
  /\ sdk.pc = "idle"
  /\ sdk' = SignedCall("revoke_group_member", signer, "revoke_group_member",
                       [group_id |-> group_id, user_id |-> user_id])
  /\ FlowFrame

sdk_store_group_key(signer, group_id, key_b64) ==
  /\ sdk.pc = "idle"
  /\ sdk' = SignedCall("store_group_key", signer, "store_group_key",
                       [group_id |-> group_id, key |-> key_b64])
  /\ FlowFrame

sdk_record_transaction(signer, group_id, user_id, file_hash, ipfs_hash) ==
  /\ sdk.pc = "idle"
  /\ sdk' = SignedCall("record_transaction", signer, "record_transaction",
                       [group_id |-> group_id, user_id |-> user_id,
                        file_hash |-> file_hash, ipfs_hash |-> ipfs_hash])
  /\ FlowFrame

\* transfer_tokens: the receiver is parsed, then execute_transfer asks for
\* the signer and queries its access key.
sdk_transfer_tokens(signer, to_account) ==
  /\ sdk.pc = "idle"
  /\ sdk' = IF ~is_valid_account_id(to_account)
              THEN [pc |-> "done", op |-> "transfer_tokens",
                    signer |-> signer, method_name |-> "transfer",
                    args |-> [to_account |-> to_account], calls |-> <<>>,
                    outcome |-> NoOutcome,
                    out |-> FlowErr("ParseAccount", <<>>)]
            ELSE SignedCall("transfer_tokens", signer, "transfer",
                            [to_account |-> to_account])
  /\ FlowFrame

\* execute_contract_call after the answer to the query of the access key:
\* an error ends the call, an access key is followed by the request for the
\* latest block.
access_key_response(a) ==
  /\ sdk.pc = "view_access_key"
  /\ sdk' = IF a = "rpc error"
              THEN [sdk EXCEPT !.pc = "done", !.out = FlowErr("Near", RpcFailed)]
            ELSE IF a # "AccessKey"
              THEN [sdk EXCEPT !.pc = "done",
                               !.out = FlowErr("Near", InvalidAccessKeyResponse)]
            ELSE [sdk EXCEPT !.pc = "block",
                             !.calls = Append(sdk.calls, "block")]
  /\ FlowFrame

\* execute_contract_call after the answer with the latest block: the
\* transaction is built, signed and sent.
block_response(a) ==
  /\ sdk.pc = "block"
  /\ sdk' = IF a # "ok"
              THEN [sdk EXCEPT !.pc = "done", !.out = FlowErr("Near", RpcFailed)]
            ELSE [sdk EXCEPT !.pc = "broadcast_tx_commit",
                             !.calls = Append(sdk.calls, "broadcast_tx_commit")]
  /\ FlowFrame

\* The action of the transaction as the node runs it: the method of the
\* ledger with the signer as caller, or a transfer, which moves tokens
\* between accounts and leaves the state of the ledger contract alone.
function_call(signer, method_name, args, random_seed) ==
  CASE method_name = "register_group" ->
         register_group_tx(signer, args.group_id)
    [] method_name = "add_group_member" ->
         add_group_member_tx(signer, args.group_id, args.user_id)
    [] method_name = "revoke_group_member" ->
         revoke_group_member_tx(signer, args.group_id, args.user_id,
                                random_seed)
    [] method_name = "store_group_key" ->
         store_group_key_tx(signer, args.group_id, args.key)
    [] method_name = "record_transaction" ->
         record_transaction_tx(signer, args.group_id, args.user_id,
                               args.file_hash, args.ipfs_hash)
    [] OTHER -> FlowFrame

\* The result of the function call of the transaction in the step.
function_call_result(method_name) ==
  IF method_name = "transfer" THEN Ok ELSE last'.result

\* The node commits the transaction it received; its answer is on the way
\* to the client.
broadcast_tx_commit(random_seed) ==
  /\ sdk.pc = "broadcast_tx_commit"
  /\ function_call(sdk.signer, sdk.method_name, sdk.args, random_seed)
  /\ sdk' = [sdk EXCEPT
               !.pc = "committed",
               !.outcome = FinalExecutionOutcome(
                             function_call_result(sdk.method_name))]

\* What the method of the client makes of the outcome: parse_outcome,
\* record_transaction its two readings, composite_upload the result with
\* the transaction id of record_transaction.
signed_call_out(call) ==
  IF call.op = "composite_upload"
    THEN IF sdk_record_outcome(call.outcome.transaction_outcome).ok
           THEN FlowOk(UploadResult(
                  call.cid,
                  Text(sdk_record_outcome(call.outcome.transaction_outcome).value),
                  call.file_hash))
         ELSE sdk_record_outcome(call.outcome.transaction_outcome)
  ELSE IF call.op = "record_transaction"
    THEN sdk_record_outcome(call.outcome.transaction_outcome)
  ELSE parse_outcome(call.outcome.transaction_outcome)

\* execute_contract_call after the answer to broadcast_tx_commit, and the
\* return of the method that called it.  The node answers with the outcome
\* of the transaction it committed; an error is the answer for a
\* transaction that was not committed, and for one that was when the answer
\* did not arrive in time.
broadcast_response(a) ==
  /\ sdk.pc \in {"broadcast_tx_commit", "committed"}
  /\ a = "ok" => sdk.pc = "committed"
  /\ sdk' = IF a # "ok"
              THEN [sdk EXCEPT !.pc = "done", !.out = FlowErr("Near", RpcFailed)]
            ELSE [sdk EXCEPT !.pc = "done", !.out = signed_call_out(sdk)]
  /\ FlowFrame

\* The room the bounds leave for the transaction in flight.
TxRoom(max_members, max_log) ==
  /\ sdk.method_name = "add_group_member" =>
       MemberRoom(max_members, sdk.signer, sdk.args.group_id, sdk.args.user_id)
  /\ sdk.method_name = "record_transaction" =>
       LogRoom(max_log, sdk.signer, sdk.args.group_id, sdk.args.user_id,
               sdk.args.file_hash, sdk.args.ipfs_hash)


InvalidCid ==
  <<"I", "n", "v", "a", "l", "i", "d", " ", "C", "I", "D", ":", " ">>

NoSignerForRetrieve ==
  <<"N", "o", " ", "s", "i", "g", "n", "e", "r", " ", "a", "t", "t", "a",
    "c", "h", "e", "d", " ", "f", "o", "r", " ", "r", "e", "t", "r", "i",
    "e", "v", "e">>

\* composite_retrieve with the signer looked at before the content id.
composite_retrieve_check_SignerFirst(signer, cid) ==
  IF signer = NoSigner THEN FlowErr("Signing", NoSignerForRetrieve)
  ELSE IF ~starts_with_Qm(cid) THEN FlowErr("Near", InvalidCid \o cid)
  ELSE FlowOk(signer)

\* composite_retrieve before its first request: the shape of the content
\* id, then the account of the signer attached.
composite_retrieve_check(signer, cid) ==
  IF ~starts_with_Qm(cid) THEN FlowErr("Near", InvalidCid \o cid)
  ELSE IF signer = NoSigner THEN FlowErr("Signing", NoSignerForRetrieve)
  ELSE FlowOk(signer)

\* composite_retrieve up to the key: the checks and step 2.  The retrieval
\* of step 3 starts with retries = 0.
composite_retrieve_call(signer, group_id, cid, a) ==
  LET c == composite_retrieve_check(signer, cid)
      call == [pc |-> "loop", op |-> "composite_retrieve",
               signer |-> signer, group_id |-> group_id, cid |-> cid,
               key |-> <<>>, retries |-> 0, attempts |-> <<>>,
               sleeps |-> <<>>, calls |-> <<>>, out |-> FlowOk(<<>>)]
  IN IF ~c.ok THEN [call EXCEPT !.pc = "done", !.out = c]
     ELSE IF ~a.ok
       THEN [call EXCEPT !.pc = "done", !.calls = <<"get_group_key">>,
                         !.out = FlowErr("Near", <<>>)]
     ELSE [call EXCEPT !.key = a.value,
                       !.calls = <<"get_group_key", "ipfs_retrieve">>]

composite_retrieve_start(signer, group_id, cid, a) ==
  /\ sdk.pc = "idle"
  /\ sdk' = composite_retrieve_call(signer, group_id, cid, a)
  /\ FlowFrame

\* The reader calls composite_retrieve with the content id that a successful
\* composite_upload returned, as test_composite_retrieve_integration does.
\* The call in progress keeps what was uploaded, the key of the group when
\* the retrieve starts and whether the reader is a member then.
composite_retrieve_of_upload(signer, a) ==
  /\ sdk.pc = "done"
  /\ sdk.op = "composite_upload"
  /\ sdk.out.ok
  /\ LET call == composite_retrieve_call(signer, sdk.group_id,
                                         sdk.out.value.cid, a)
         uploaded == [data |-> sdk.data, key |-> sdk.key,
                      encrypted |-> sdk.encrypted,
                      key_now |-> groups[sdk.group_id].group_key,
                      member |->
                        /\ is_authorized_result(sdk.group_id, signer) = Ok
                        /\ is_authorized_value(sdk.group_id, signer)]
     IN sdk' = [f \in DOMAIN call \cup {"uploaded"} |->
                  IF f = "uploaded" THEN uploaded ELSE call[f]]
  /\ FlowFrame

\* CompositeRetrieveResult
RetrieveResult(data, file_hash) == [data |-> data, file_hash |-> file_hash]

\* Steps 4 and 5 with a comparison of the hash against the log.
composite_retrieve_finish_CheckLog(encrypted_b64, key_b64) ==
  LET d == decrypt_data_result(encrypted_b64, key_b64)
      h == Text(hex_encode(sha256_hash(Base64Decode(d.value).bytes)))
  IN IF ~d.ok THEN FlowErr(d.err, <<>>)
     ELSE IF \A i \in 1..Len(transactions) : transactions[i].file_hash # h
       THEN FlowErr("Near", <<>>)
     ELSE FlowOk(RetrieveResult(Base64Decode(d.value).bytes, h))

\* Steps 4 and 5 that return the text of decrypt_data as the data, without
\* decoding it.
composite_retrieve_finish_NoDecode(encrypted_b64, key_b64) ==
  LET d == decrypt_data_result(encrypted_b64, key_b64)
      decrypted == Base64Decode(d.value)
  IN IF ~d.ok THEN FlowErr(d.err, <<>>)
     ELSE IF ~decrypted.ok THEN FlowErr("InvalidKey", <<>>)
     ELSE FlowOk(RetrieveResult(d.value,
                                Text(hex_encode(sha256_hash(decrypted.bytes)))))

\* composite_retrieve, steps 4 and 5: the text received is decrypted, the
\* result decoded and hashed.
composite_retrieve_finish(encrypted_b64, key_b64) ==
  LET d == decrypt_data_result(encrypted_b64, key_b64)
      decrypted == Base64Decode(d.value)
  IN IF ~d.ok THEN FlowErr(d.err, <<>>)
     ELSE IF ~decrypted.ok THEN FlowErr("InvalidKey", <<>>)
     ELSE FlowOk(RetrieveResult(decrypted.bytes,
                                Text(hex_encode(sha256_hash(decrypted.bytes)))))

composite_retrieve_decrypt ==
  /\ sdk.pc = "decrypt"
  /\ LET r == composite_retrieve_finish(sdk.out.value, sdk.key)
     IN sdk' = [sdk EXCEPT
                  !.pc = "done",
                  !.calls = IF r.ok
                              THEN sdk.calls \o <<"decrypt_data", "sha256_hash">>
                              ELSE Append(sdk.calls, "decrypt_data"),
                  !.out = r]
  /\ FlowFrame

-----------------------------------------------------------------------------

\* The ledger is single-writer: a call runs to completion and its result is
\* delivered before the host takes the next call.
Idle == last = NoCall

Respond ==
  /\ ~Idle
  /\ last' = NoCall
  /\ UNCHANGED <<ledger, block_timestamp, granted, revoked, sdk>>

\* Membership and keys: every operation, one block, one transaction input.
Next ==
  \/ \E c \in Callers, g \in GroupIds : Idle /\ register_group(c, g)
  \/ \E c \in Callers, g \in GroupIds, u \in Users :
       Idle /\ MemberRoom(MaxMembers, c, g, u) /\ add_group_member(c, g, u)
  \/ \E c \in Callers, g \in GroupIds, u \in Users, seed \in Seeds :
       Idle /\ revoke_group_member(c, g, u, seed)
  \/ \E g \in GroupIds, u \in Accounts : Idle /\ is_authorized("-", g, u)
  \/ \E c \in Callers, g \in GroupIds, k \in KeyInputs :
       Idle /\ store_group_key(c, g, k)
  \/ \E c \in Accounts, g \in GroupIds : Idle /\ get_group_key(c, g)
  \/ \E c \in Callers, g \in GroupIds, u \in Users :
       /\ Idle /\ LogRoom(MaxLog, c, g, u, "f", "Qm")
       /\ record_transaction(c, g, u, "f", "Qm")
  \/ \E c \in Callers, g \in GroupIds, u \in Accounts :
       Idle /\ get_transactions_for_group(c, g, u)
  \/ \E g \in GroupIds, u \in Users : Idle /\ composite_upload(NoSigner, g, u)
  \/ \E s \in Signers, g \in GroupIds, cid \in Cids :
       Idle /\ composite_retrieve(s, g, cid)
  \/ Respond

Spec == Init /\ [][Next]_vars

\* The transaction log: every ledger operation over several blocks and
\* transaction inputs, with one rotation seed and one key.
NextLog ==
  \/ \E c \in Callers, g \in GroupIds : Idle /\ register_group(c, g)
  \/ \E c \in Callers, g \in GroupIds, u \in Users :
       Idle /\ MemberRoom(MaxMembers, c, g, u) /\ add_group_member(c, g, u)
  \/ \E c \in Callers, g \in GroupIds, u \in Users :
       Idle /\ revoke_group_member(c, g, u, Bytes32(0))
  \/ \E g \in GroupIds, u \in Accounts : Idle /\ is_authorized("-", g, u)
  \/ \E c \in Callers, g \in GroupIds :
       Idle /\ store_group_key(c, g, Base64Encode(Bytes32(0)))
  \/ \E c \in Accounts, g \in GroupIds : Idle /\ get_group_key(c, g)
  \/ \E c \in Callers, g \in GroupIds, u \in Users,
        fh \in FileHashes, ih \in IpfsHashes :
       /\ Idle /\ LogRoom(MaxLog, c, g, u, fh, ih)
       /\ record_transaction(c, g, u, fh, ih)
  \/ \E c \in Callers, g \in GroupIds, u \in Accounts :
       Idle /\ get_transactions_for_group(c, g, u)
  \/ Idle /\ AdvanceBlock
  \/ Respond

SpecLog == Init /\ [][NextLog]_vars

\* Key custody: the operations on members and keys, where a group holds
\* OwnerKey exactly when store_group_key was the last operation that set
\* its key.
NextKey ==
  \/ \E c \in Callers, g \in GroupIds : Idle /\ register_group(c, g)
  \/ \E c \in Callers, g \in GroupIds, u \in Users :
       Idle /\ MemberRoom(MaxMembers, c, g, u) /\ add_group_member(c, g, u)
  \/ \E c \in Callers, g \in GroupIds, u \in Users :
       Idle /\ revoke_group_member(c, g, u, RotationSeed)
  \/ \E c \in Callers, g \in GroupIds :
       Idle /\ store_group_key(c, g, OwnerKey)
  \/ \E c \in Accounts, g \in GroupIds : Idle /\ get_group_key(c, g)
  \/ Respond

SpecKey == Init /\ [][NextKey]_vars

\* Listing: the registrar fills the groups and a log of several entries,
\* in one block, and anyone lists.
NextList ==
  \/ \E g \in GroupIds : Idle /\ register_group(owner, g)
  \/ \E g \in GroupIds, u \in Users :
       Idle /\ MemberRoom(MaxMembers, owner, g, u) /\ add_group_member(owner, g, u)
  \/ \E c \in Callers, g \in GroupIds, u \in Users, fh \in FileHashes :
       /\ Idle /\ LogRoom(MaxListLog, c, g, u, fh, "Qm")
       /\ record_transaction(c, g, u, fh, "Qm")
  \/ \E c \in Callers, g \in GroupIds, u \in Accounts :
       Idle /\ get_transactions_for_group(c, g, u)
  \/ Respond

SpecList == Init /\ [][NextList]_vars

\* The codec: an encryption and then a decryption of what the caller passes
\* on, or a decryption alone.
NextCodec ==
  \/ \E data \in DataInputs, k \in CodecKeys, iv \in IVs :
       encrypt_data(data, k, iv)
  \/ \E k \in CodecKeys, e \in FreshCipherInputs :
       sdk.pc = "idle" /\ decrypt_data(e, k)
  \/ \E k \in CodecKeys :
       /\ sdk.pc = "encrypted" /\ sdk.out.ok
       /\ \E e \in CipherInputs(sdk.out.value) : decrypt_data(e, k)
  \/ SdkReturn

SpecCodec == Init /\ [][NextCodec]_vars

\* Retrieval from the content store.  Every request ends, with a response or
\* with an error, and the caller takes the result.
NextGet ==
  \/ \E cid \in Cids : ipfs_retrieve(cid)
  \/ \E o \in TransportOutcomes : retrieve_attempt(o)
  \/ \E o \in TransportOutcomes : retrieve_fallback(o)
  \/ retrieve_sleep
  \/ SdkReturn

SpecGet == Init /\ [][NextGet]_vars /\ WF_vars(NextGet)

\* Who may be attached to the client as signer.
FlowSigners == Callers \cup {NoSigner}

\* The group the workflows are about, the member the owner adds to it and
\* the IV the client draws.
FlowGroups == {"g1"}
FlowMembers == {"m1"}

\* Receivers of a transfer: an account id and a text that is none.
FlowReceivers == { <<"m", "1">>, <<"M", "1">> }

\* Blobs the gateways may deliver for a content id: the ciphertexts of the
\* plaintexts under the owner's key, and three bytes that are none.
FlowBlobs ==
  { Base64Decode(encrypt_data_result(d, OwnerKey, iv).value).bytes :
      d \in FlowData, iv \in FlowIVs }
  \cup { <<1, 2, 3>> }

FlowTransportOutcomes ==
  { [stage |-> "ok", bytes |-> b, detail |-> <<>>] : b \in FlowBlobs }
  \cup { [stage |-> "send", bytes |-> <<>>, detail |-> d] :
           d \in {Timeout, <<"r", "e", "f", "u", "s", "e", "d">>} }

\* The composite workflows of one client, between the calls that the owner
\* makes on the ledger.
NextFlow ==
  \/ \E s \in FlowSigners, g \in FlowGroups : sdk_register_group(s, g)
  \/ \E s \in FlowSigners, g \in FlowGroups, u \in FlowMembers :
       sdk_add_group_member(s, g, u)
  \/ \E s \in FlowSigners, g \in FlowGroups, u \in FlowMembers :
       sdk_revoke_group_member(s, g, u)
  \/ \E s \in FlowSigners, g \in FlowGroups : sdk_store_group_key(s, g, OwnerKey)
  \/ \E s \in FlowSigners, g \in FlowGroups, u \in FlowMembers :
       sdk_record_transaction(s, g, u, "f", "Qm")
  \/ \E s \in FlowSigners, to \in FlowReceivers : sdk_transfer_tokens(s, to)
  \/ \E s \in FlowSigners, g \in FlowGroups, u \in Users, data \in FlowData :
       \E a \in KeyAnswers(g, u), iv \in FlowIVs :
         composite_upload_start(s, g, u, data, a, iv)
  \/ \E o \in PinOutcomes : composite_upload_put(o)
  \/ \E a \in AccessKeyAnswers : access_key_response(a)
  \/ \E a \in RpcAnswers : block_response(a)
  \/ /\ Idle
     /\ sdk.pc = "broadcast_tx_commit"
     /\ TxRoom(MaxMembers, MaxLog)
     /\ broadcast_tx_commit(RotationSeed)
  \/ \E a \in RpcAnswers : broadcast_response(a)
  \/ \E s \in FlowSigners, g \in FlowGroups, cid \in Cids :
       \E a \in KeyAnswers(g, s) : composite_retrieve_start(s, g, cid, a)
  \/ \E o \in FlowTransportOutcomes :
       sdk.pc = "loop" /\ sdk.op = "composite_retrieve" /\ retrieve_attempt(o)
  \/ \E o \in FlowTransportOutcomes :
       sdk.pc = "loop" /\ sdk.op = "composite_retrieve" /\ retrieve_fallback(o)
  \/ retrieve_sleep
  \/ composite_retrieve_decrypt
  \/ SdkReturn
  \/ Respond

SpecFlow == Init /\ [][NextFlow]_vars

\* What the gateways answer for the content id of an upload: the bytes that
\* were pinned, or a failure of send.
StoredOutcomes(encrypted_b64) ==
  { [stage |-> "ok", bytes |-> Base64Decode(encrypted_b64).bytes,
     detail |-> <<>>] }
  \cup { [stage |-> "send", bytes |-> <<>>, detail |-> Timeout] }

\* One upload of a client that signs as the owner and the retrieve of its
\* content id by a reader, while the owner manages the group from
\* elsewhere: the calls on the ledger come between the steps of the upload
\* and between the upload and the retrieve.
NextRace ==
  \/ \E g \in FlowGroups : Idle /\ register_group(owner, g)
  \/ \E g \in FlowGroups, u \in Users :
       Idle /\ MemberRoom(MaxMembers, owner, g, u) /\ add_group_member(owner, g, u)
  \/ \E g \in FlowGroups, u \in Users :
       Idle /\ revoke_group_member(owner, g, u, RotationSeed)
  \/ \E g \in FlowGroups : Idle /\ store_group_key(owner, g, OwnerKey)
  \/ \E g \in FlowGroups, u \in FlowMembers, data \in FlowData :
       \E a \in KeyAnswers(g, u), iv \in FlowIVs :
         composite_upload_start(owner, g, u, data, a, iv)
  \/ \E o \in PinOutcomes : composite_upload_put(o)
  \/ \E a \in AccessKeyAnswers : access_key_response(a)
  \/ \E a \in RpcAnswers : block_response(a)
  \/ /\ Idle
     /\ sdk.pc = "broadcast_tx_commit"
     /\ TxRoom(MaxMembers, MaxLog)
     /\ broadcast_tx_commit(RotationSeed)
  \/ \E a \in RpcAnswers : broadcast_response(a)
  \/ \E s \in Users :
       /\ sdk.pc = "done" /\ sdk.op = "composite_upload"
       /\ \E a \in KeyAnswers(sdk.group_id, s) :
            composite_retrieve_of_upload(s, a)
  \/ /\ sdk.pc = "loop"
     /\ \E o \in StoredOutcomes(sdk.uploaded.encrypted) : retrieve_attempt(o)
  \/ /\ sdk.pc = "loop"
     /\ \E o \in StoredOutcomes(sdk.uploaded.encrypted) : retrieve_fallback(o)
  \/ retrieve_sleep
  \/ composite_retrieve_decrypt
  \/ SdkReturn
  \/ Respond

SpecRace == Init /\ [][NextRace]_vars

-----------------------------------------------------------------------------
(* The error kinds of the specification, from the contract's panic messages *)

Kind(result) ==
  CASE result = Ok -> "Ok"
    [] result = "Group exists" -> "AlreadyExists"
    [] result = "Group not found" -> "NotFound"
    [] result \in {"Only owner can register", "Only group owner can add",
                   "Only group owner can revoke", "Only group owner can store key",
                   "Only owner can record", "Unauthorized"} -> "Unauthorized"
    [] result = "User already a member" -> "AlreadyMember"
    [] result \in {"User not a member", "User not authorized"} -> "NotAMember"
    [] result = "No key set" -> "NoKeySet"
    [] result \in {"Invalid base64 key", "Key must be 32 bytes"} -> "InvalidKey"
    [] OTHER -> "HostError"

Registered(g) == g \in DOMAIN groups

\* is_authorized(g, u) returns true.
Authorized(g, u) ==
  is_authorized_result(g, u) = Ok /\ is_authorized_value(g, u)

-----------------------------------------------------------------------------
(* C1: get_key(c, g) returns a key only if c is currently in g's            *)
(* membership set (added to g and not revoked since); on a registered      *)
(* group a caller that is not a member, the owner included, gets           *)
(* Unauthorized.                                                           *)
C1_GetKeyOnlyForMembers ==
  last.op = "get_group_key" =>
    /\ last.result = Ok => <<last.group_id, last.caller>> \in granted
    /\ (Registered(last.group_id) /\ <<last.group_id, last.caller>> \notin granted)
         => Kind(last.result) = "Unauthorized"

(* C2: every successful revoke_member(g, u) removes u from g and, in the   *)
(* same step, sets g's key to a value that differs from g's key before     *)
(* the call, whatever seed the host supplies.                              *)
C2_RevokeRotatesToNewKey ==
  [][ \A g \in GroupIds : \A u \in Accounts :
        (/\ last'.op = "revoke_group_member" /\ last'.result = Ok
         /\ last'.group_id = g /\ last'.user_id = u)
          => /\ ~Authorized(g, u)'
             /\ groups'[g].group_key.is_some
             /\ groups'[g].group_key # groups[g].group_key
    ]_vars

(* C3: in every reachable state is_authorized(g, u) is true if and only if *)
(* some add_member(g, u) succeeded and no revoke_member(g, u) succeeded    *)
(* after the last one.                                                     *)
C3_AuthorizedIffGranted ==
  \A g \in DOMAIN groups : \A u \in Accounts :
    Authorized(g, u) <=> <<g, u>> \in granted

(* C4: between a successful revoke_member(g, u) and the next successful    *)
(* add_member(g, u), every get_key on g by u fails Unauthorized, and every *)
(* composite_upload or composite_retrieve whose key fetch is made for u    *)
(* stops at that step: no content-store call follows.                      *)
C4_NoAccessAfterRevocation ==
  /\ (last.op = "get_group_key" /\ <<last.group_id, last.caller>> \in revoked)
       => Kind(last.result) = "Unauthorized"
  /\ (/\ last.op \in {"composite_upload", "composite_retrieve"}
      /\ <<last.group_id, last.user_id>> \in revoked
      /\ last.calls # <<>>)
       => (last.result # Ok /\ last.calls = <<"get_group_key">>)

\* The key of group g in the map gs; a group not registered has none.
KeyOf(gs, g) == IF g \in DOMAIN gs THEN gs[g].group_key ELSE NoneKey

GatedOps == {"add_group_member", "revoke_group_member", "store_group_key"}

(* C5, as stated: register_group by a caller that is not the registrar,    *)
(* and add_member, revoke_member and store_key on an existing group by a   *)
(* caller that is not the group's owner, each fail Unauthorized and leave  *)
(* groups, memberships, keys and the transaction log unchanged.            *)
C5_MutationsFailUnauthorized ==
  [][ /\ (last'.op = "register_group" /\ last'.caller # owner)
           => (Kind(last'.result) = "Unauthorized" /\ UNCHANGED ledger)
      /\ (/\ last'.op \in GatedOps
          /\ last'.group_id \in DOMAIN groups
          /\ last'.caller # groups[last'.group_id].owner)
           => (Kind(last'.result) = "Unauthorized" /\ UNCHANGED ledger)
    ]_vars

(* C5, amended: register_group by a caller that is not the registrar fails *)
(* with AlreadyExists when the id is already registered and with           *)
(* Unauthorized otherwise; add_member, revoke_member and store_key on an   *)
(* existing group by a caller that is not the group's owner fail           *)
(* Unauthorized; each of these calls leaves groups, memberships, keys and  *)
(* the transaction log unchanged.                                          *)
C5_MutationsAccessGated ==
  [][ /\ (last'.op = "register_group" /\ last'.caller # owner)
           => /\ Kind(last'.result) =
                   (IF last'.group_id \in DOMAIN groups
                    THEN "AlreadyExists" ELSE "Unauthorized")
              /\ UNCHANGED ledger
      /\ (/\ last'.op \in GatedOps
          /\ last'.group_id \in DOMAIN groups
          /\ last'.caller # groups[last'.group_id].owner)
           => (Kind(last'.result) = "Unauthorized" /\ UNCHANGED ledger)
    ]_vars

\* A caller that is not the registrar has tried to register an id that is
\* registered, with a member and a key, and a gated call would be refused.
C5_Witness ==
  /\ last.op = "register_group"
  /\ last.caller # owner
  /\ Registered(last.group_id)
  /\ Kind(last.result) = "AlreadyExists"
  /\ groups[last.group_id].group_key.is_some
  /\ group_members[last.group_id] > 0
  /\ Kind(add_group_member_result(last.caller, last.group_id, "m2")) = "Unauthorized"

(* C6: a group's key changes in a step only if the step is a successful    *)
(* store_key or a successful revoke_member on that same group; every other *)
(* call, and every failed call, leaves the key of every group unchanged.   *)
C6_KeyChangesOnlyByStoreOrRevoke ==
  [][ \A g \in GroupIds :
        KeyOf(groups', g) # KeyOf(groups, g)
          => /\ last'.op \in {"store_group_key", "revoke_group_member"}
             /\ last'.result = Ok
             /\ last'.group_id = g
    ]_vars

\* A member has been added to a group whose key is set, while another
\* group is registered and has its own key.
C6_Witness ==
  /\ last.op = "add_group_member"
  /\ last.result = Ok
  /\ groups[last.group_id].group_key.is_some
  /\ \E g \in DOMAIN groups : g # last.group_id /\ groups[g].group_key.is_some

(* C7: record_transaction(g, u, ..) for a user u that is not currently a   *)
(* member of g fails and appends nothing, so every entry of the log names  *)
(* a user who was a member of the entry's group when it was appended.      *)
C7_RecordOnlyForMembers ==
  [][ (/\ last'.op = "record_transaction"
       /\ <<last'.group_id, last'.user_id>> \notin granted)
        => (last'.result # Ok /\ transactions' = transactions)
    ]_vars

(* C8: list_transactions(caller, g, user) on an existing group succeeds if *)
(* and only if user is currently a member of g or the caller is the        *)
(* registrar/owner; otherwise it fails Unauthorized and returns nothing.   *)
C8_ListGate ==
  (last.op = "get_transactions_for_group" /\ Registered(last.group_id)) =>
    IF <<last.group_id, last.user_id>> \in granted \/ last.caller = owner
    THEN last.result = Ok
    ELSE Kind(last.result) = "Unauthorized" /\ last.ret = <<>>

(* C9: on an existing group, record_transaction by a caller other than the *)
(* recorder fails with kind Unauthorized whatever the user argument is,    *)
(* member or not, and appends nothing.                                     *)
C9_RecorderOnly ==
  [][ (/\ last'.op = "record_transaction"
       /\ last'.group_id \in DOMAIN groups
       /\ last'.caller # owner)
        => (Kind(last'.result) = "Unauthorized" /\ transactions' = transactions)
    ]_vars

(* C10: the log is append-only: an entry stored under an id stays in every *)
(* later state with the same group_id, user_id, file_hash and content id,  *)
(* and the number of entries grows by exactly one with each successful     *)
(* record_transaction and by zero with every other step.                   *)
C10_LogAppendOnly ==
  [][ /\ \A i \in 1..Len(transactions) :
           \E j \in 1..Len(transactions') : transactions'[j] = transactions[i]
      /\ Len(transactions') = Len(transactions) +
           (IF last'.op = "record_transaction" /\ last'.result = Ok THEN 1 ELSE 0)
    ]_vars

(* C11: transaction ids are unique: every successful record_transaction    *)
(* returns an id that was not already a key of the log, also for two calls *)
(* under the same ledger timestamp and for field tuples whose              *)
(* concatenations coincide.                                                *)
C11_FreshTransactionId ==
  [][ (last'.op = "record_transaction" /\ last'.result = Ok)
        => ~HasKey(transactions, last'.ret)
    ]_vars

\* key is the base64 of exactly 32 bytes.
ValidKey32(key) ==
  Base64Decode(key).ok /\ Len(Base64Decode(key).bytes) = KeyLen

(* C12, as stated: store_key on a group with a value that is not valid     *)
(* base64 or that decodes to a length other than 32 bytes fails InvalidKey *)
(* and leaves the group's stored key, or its absence, unchanged.           *)
C12_BadKeyFailsInvalidKey ==
  [][ (/\ last'.op = "store_group_key"
       /\ last'.group_id \in DOMAIN groups
       /\ ~ValidKey32(last'.ret))
        => /\ Kind(last'.result) = "InvalidKey"
           /\ groups'[last'.group_id].group_key = groups[last'.group_id].group_key
    ]_vars

(* C12, amended: store_key on a group with a value that is not valid       *)
(* base64 or that decodes to a length other than 32 bytes fails InvalidKey *)
(* when the caller is the group's owner and Unauthorized when it is not;   *)
(* in both cases the group's stored key, or its absence, is unchanged.     *)
C12_BadKeyRejected ==
  [][ (/\ last'.op = "store_group_key"
       /\ last'.group_id \in DOMAIN groups
       /\ ~ValidKey32(last'.ret))
        => /\ Kind(last'.result) =
                (IF last'.caller = groups[last'.group_id].owner
                 THEN "InvalidKey" ELSE "Unauthorized")
           /\ groups'[last'.group_id].group_key = groups[last'.group_id].group_key
    ]_vars

\* The owner has offered a well-formed base64 text of 31 bytes to a group
\* that holds a key, and the call was refused.
C12_Witness ==
  /\ last.op = "store_group_key"
  /\ Registered(last.group_id)
  /\ last.caller = groups[last.group_id].owner
  /\ Base64Decode(last.ret).ok
  /\ Len(Base64Decode(last.ret).bytes) # KeyLen
  /\ Kind(last.result) = "InvalidKey"
  /\ groups[last.group_id].group_key.is_some

(* C13: after a successful store_key(g, k) by the owner, and as long as no *)
(* later store_key or revoke_member on g has succeeded, get_key on g by    *)
(* any current member returns exactly the string k.  (In SpecKey the group *)
(* holds OwnerKey exactly in these states, with k = OwnerKey.)             *)
C13_GetKeyReturnsStoredKey ==
  (/\ last.op = "get_group_key"
   /\ Registered(last.group_id)
   /\ groups[last.group_id].group_key = SomeKey(OwnerKey)
   /\ <<last.group_id, last.caller>> \in granted)
    => (last.result = Ok /\ last.ret = OwnerKey)

(* C14: register_group by the registrar on an id that is not registered    *)
(* succeeds and creates the group with owner = caller, no member and no    *)
(* key; every later register_group with that id, by any caller, fails      *)
(* AlreadyExists and leaves the group's owner, membership and key          *)
(* unchanged.                                                              *)
C14_RegisterOnce ==
  [][ \A g \in GroupIds :
        (last'.op = "register_group" /\ last'.group_id = g) =>
          IF g \in DOMAIN groups
          THEN /\ Kind(last'.result) = "AlreadyExists"
               /\ groups'[g] = groups[g]
               /\ group_members'[g] = group_members[g]
               /\ vec_storage' = vec_storage
          ELSE last'.caller = owner =>
                 /\ last'.result = Ok
                 /\ groups'[g] = [owner |-> last'.caller, group_key |-> NoneKey]
                 /\ group_members'[g] = 0
                 /\ \A u \in Accounts : ~Authorized(g, u)'
    ]_vars

\* The registrar has registered again an id whose group has a member and
\* a key, and was refused.
C14_Witness ==
  /\ last.op = "register_group"
  /\ last.caller = owner
  /\ Kind(last.result) = "AlreadyExists"
  /\ groups[last.group_id].group_key.is_some
  /\ \E u \in Users : Authorized(last.group_id, u)

\* The member vector of g as the contract reads it: elements 0 .. len-1.
MemberVec(g) == [i \in 0..(group_members[g] - 1) |-> Slot(i)]

(* C15: in every reachable state no group's membership collection holds    *)
(* the same principal twice, after any interleaving of add_member and      *)
(* revoke_member calls on several groups; and add_member(g, u) for a u     *)
(* already present fails AlreadyMember without changing the membership.    *)
C15_NoDuplicateMembers ==
  /\ \A g \in DOMAIN group_members :
       \A i, j \in DOMAIN MemberVec(g) :
         (i # j /\ MemberVec(g)[i] # Absent) => MemberVec(g)[i] # MemberVec(g)[j]
  /\ (/\ last.op = "add_group_member"
      /\ Registered(last.group_id)
      /\ last.caller = groups[last.group_id].owner
      /\ last.user_id \in Members(last.group_id)
      /\ last.result # Ok)
       => Kind(last.result) = "AlreadyMember"

LedgerOpsOnGroups ==
  {"is_authorized", "add_group_member", "revoke_group_member",
   "store_group_key", "get_group_key", "record_transaction",
   "get_transactions_for_group"}

(* C16: every ledger operation other than register_group, called with a   *)
(* group id that has never been registered, fails NotFound and leaves the  *)
(* ledger state unchanged.                                                 *)
C16_UnknownGroupNotFound ==
  [][ (last'.op \in LedgerOpsOnGroups /\ last'.group_id \notin DOMAIN groups)
        => (Kind(last'.result) = "NotFound" /\ UNCHANGED ledger)
    ]_vars

\* A member of a registered group, whose key is set, has asked for the key
\* of a group that was never registered, and was refused.
C16_Witness ==
  /\ last.op = "get_group_key"
  /\ ~Registered(last.group_id)
  /\ Kind(last.result) = "NotFound"
  /\ \E g \in DOMAIN groups :
       groups[g].group_key.is_some /\ Authorized(g, last.caller)

\* The positions of the log whose entry belongs to group g.
LogOf(g) == {i \in 1..Len(transactions) : transactions[i].group_id = g}

(* C17: a successful list_transactions for group g returns exactly the     *)
(* entries of the log whose group_id equals g: each of them once, and no   *)
(* entry of another group.                                                 *)
C17_ListReturnsGroupEntries ==
  (last.op = "get_transactions_for_group" /\ last.result = Ok) =>
    /\ \A i \in LogOf(last.group_id) :
         \E j \in 1..Len(last.ret) : last.ret[j] = TxValue(transactions[i])
    /\ \A j \in 1..Len(last.ret) :
         /\ last.ret[j].group_id = last.group_id
         /\ \E i \in LogOf(last.group_id) : TxValue(transactions[i]) = last.ret[j]
    /\ Len(last.ret) = Cardinality(LogOf(last.group_id))

\* A list of a group has returned its entry while the log also holds an
\* entry of the other group.
C17_Witness ==
  /\ last.op = "get_transactions_for_group"
  /\ last.result = Ok
  /\ Len(last.ret) = 1
  /\ Len(transactions) = 2
  /\ \E i \in 1..Len(transactions) : transactions[i].group_id # last.group_id

-----------------------------------------------------------------------------
(* C18 *)

\* The decryption is that of the whole text of the encryption, under its key.
RoundTrip ==
  /\ sdk.pc = "decrypted"
  /\ sdk.whole
  /\ sdk.dkey = sdk.key

\* C18, as stated: for every byte sequence b and every key k of 32 bytes,
\* decrypt(encrypt(b, k), k) succeeds and yields b, whatever the IV.
C18_RoundTripYieldsPlaintext ==
  RoundTrip => sdk.out.ok /\ sdk.out.value = sdk.data

\* C18, amended: for every byte sequence b and every key k of 32 bytes,
\* decrypt(encrypt(b, k), k) succeeds and yields the base64 text of b,
\* whatever the IV: decoding the value returned gives exactly b.
C18_RoundTripYieldsBase64OfPlaintext ==
  RoundTrip =>
    /\ sdk.out.ok
    /\ Base64Decode(sdk.out.value).ok
    /\ Base64Decode(sdk.out.value).bytes = sdk.data

\* A round trip of a whole block of bytes that read as padding, under a
\* non-zero IV and a non-zero key.
C18_Witness ==
  /\ RoundTrip
  /\ sdk.out.ok
  /\ sdk.data = [i \in 1..BlockLen |-> BlockLen]
  /\ sdk.iv = [i \in 1..BlockLen |-> ByteMod - i]
  /\ sdk.key = Base64Encode([i \in 1..KeyLen |-> i])

-----------------------------------------------------------------------------
(* C19, C20 *)

\* A retrieval is running or has ended.
InRetrieval == sdk.pc \in {"loop", "sleep", "done"}

\* The attempt failed and its error reads as a timeout.
TimedOut(a) == ~a.ok /\ contains(a.text, Timeout)

\* C19: the secondary gateway is reached only after exactly 3 attempts
\* against the primary gateway that each failed with a timeout; exactly one
\* secondary attempt is made, it is the last attempt, and its result, success
\* or failure of any kind, is the result of the operation.
C19_FallbackAfterThreeTimeouts ==
  InRetrieval =>
    \A i \in 1..Len(sdk.attempts) :
      sdk.attempts[i].gateway = "public" =>
        /\ i = 4
        /\ Len(sdk.attempts) = 4
        /\ \A j \in 1..3 : /\ sdk.attempts[j].gateway = "primary"
                           /\ TimedOut(sdk.attempts[j])
        /\ sdk.pc = "done"
        /\ sdk.out.ok = sdk.attempts[i].ok
        /\ sdk.out.value = sdk.attempts[i].value
        /\ sdk.out.text = sdk.attempts[i].text

\* Three timeouts, then the public gateway delivers three bytes.
C19_Witness ==
  /\ sdk.pc = "done"
  /\ Len(sdk.attempts) = 4
  /\ sdk.attempts[4].gateway = "public"
  /\ sdk.out.ok
  /\ sdk.out.value = Base64Encode(<<1, 2, 3>>)

PrimaryAttempts == {i \in 1..Len(sdk.attempts) : sdk.attempts[i].gateway = "primary"}
PublicAttempts == {i \in 1..Len(sdk.attempts) : sdk.attempts[i].gateway = "public"}

AttemptsBounded ==
  InRetrieval =>
    /\ Cardinality(PrimaryAttempts) <= 3
    /\ Cardinality(PublicAttempts) <= 1
    /\ \A i \in PrimaryAttempts :
         sdk.attempts[i].ok =>
           /\ i = Len(sdk.attempts)
           /\ sdk.pc = "done"
           /\ sdk.out = RetrieveOk(sdk.attempts[i].value)

\* C20: a retrieval always ends, whatever the outcomes of its requests
\* (success, timeout, other error), after at most 3 attempts against the
\* primary gateway and at most 1 against the secondary; a successful primary
\* attempt is the last attempt and its value the result.
C20_GetTerminatesBounded ==
  /\ []AttemptsBounded
  /\ (sdk.pc \in {"loop", "sleep"}) ~> (sdk.pc = "done")

\* Two timeouts, then the primary gateway delivers: the third attempt is the
\* last one and no sleep follows it.
C20_Witness ==
  /\ sdk.pc = "done"
  /\ Len(sdk.attempts) = 3
  /\ sdk.attempts[3].gateway = "primary"
  /\ sdk.attempts[3].ok
  /\ sdk.out = RetrieveOk(Base64Encode(<<1, 2, 3>>))
  /\ sdk.sleeps = <<2, 4>>

-----------------------------------------------------------------------------
(* C21, C27 *)

\* The error of the attempt is one the retry arm does not take.
NotClassifiedTimeout(a) == ~a.ok /\ ~contains(NearDisplay \o a.text, Timeout)

\* C21: a primary-gateway error that is not classified as a timeout ends the
\* retrieval at once with that error, on whichever attempt it occurs: it is
\* the last attempt, no sleep follows it (the sleeps are those of the timeouts
\* before it) and the secondary gateway is never asked.
C21_OtherErrorAbortsAtOnce ==
  InRetrieval =>
    \A i \in PrimaryAttempts :
      NotClassifiedTimeout(sdk.attempts[i]) =>
        /\ i = Len(sdk.attempts)
        /\ sdk.pc = "done"
        /\ sdk.out = RetrieveErr(sdk.attempts[i].text)
        /\ Len(sdk.sleeps) = i - 1
        /\ PublicAttempts = {}

\* Two timeouts, then the body of the third response cannot be read.
C21_Witness ==
  /\ sdk.pc = "done"
  /\ Len(sdk.attempts) = 3
  /\ NotClassifiedTimeout(sdk.attempts[3])
  /\ sdk.out = RetrieveErr(IpfsReadFailed \o <<"r", "e", "f", "u", "s", "e", "d">>)
  /\ sdk.sleeps = <<2, 4>>

\* The primary attempts that timed out, in the state and in the next one.
PrimaryTimeouts == {i \in PrimaryAttempts : TimedOut(sdk.attempts[i])}

\* C27: the k-th primary timeout (k = 1, 2, 3) is followed by a sleep of
\* exactly 2^k seconds before the next attempt, so the sleeps are 2, 4, 8 in
\* that order and the secondary gateway is asked after the sleep of 8; a
\* success, an error that is no timeout and the secondary attempt are
\* followed by no sleep.
C27_BackoffTwoFourEight ==
  [][ /\ (InRetrieval /\ InRetrieval' /\ sdk'.attempts # sdk.attempts) =>
           LET n == Len(sdk'.attempts)
               a == sdk'.attempts[n]
           IN /\ n = Len(sdk.attempts) + 1
              /\ sdk'.sleeps = sdk.sleeps
              /\ Len(sdk.sleeps) = Cardinality(PrimaryTimeouts)
              /\ (sdk'.pc = "sleep") <=> (a.gateway = "primary" /\ TimedOut(a))
              /\ a.gateway = "public" => sdk.sleeps = <<2, 4, 8>>
      /\ (InRetrieval /\ sdk.pc = "sleep" /\ sdk' # sdk) =>
           LET k == Cardinality(PrimaryTimeouts)
           IN /\ k \in 1..3
              /\ sdk'.pc = "loop"
              /\ sdk'.attempts = sdk.attempts
              /\ sdk'.sleeps = Append(sdk.sleeps, 2 ^ k)
              /\ sdk'.sleeps = SubSeq(<<2, 4, 8>>, 1, k)
      /\ (InRetrieval /\ InRetrieval' /\ sdk'.sleeps # sdk.sleeps) =>
           sdk.pc = "sleep"
    ]_vars

\* Three timeouts and their three sleeps, then the answer of the secondary
\* gateway with no sleep after it.
C27_Witness ==
  /\ sdk.pc = "done"
  /\ PublicAttempts = {4}
  /\ sdk.sleeps = <<2, 4, 8>>
  /\ ~sdk.out.ok

-----------------------------------------------------------------------------
(* C22, C23, C26, C28, C29: composite_upload *)

UploadPcs ==
  {"put", "view_access_key", "block", "broadcast_tx_commit", "committed",
   "done"}

InUpload == sdk.pc \in UploadPcs /\ sdk.op = "composite_upload"

UploadSteps ==
  <<"get_group_key", "encrypt_data", "ipfs_upload", "sha256_hash",
    "record_transaction", "view_access_key", "block", "broadcast_tx_commit">>

Called(step) == \E i \in 1..Len(sdk.calls) : sdk.calls[i] = step

\* C22: composite_upload runs its steps in the order get_key, encrypt, put,
\* hash, record_transaction, and a failed step is the last one, so that an
\* upload succeeds only after all of them: the content store is asked only
\* after a key was received and the data encrypted under it, and
\* record_transaction is called only after exactly one put returned a
\* content id.
C22_UploadStepsInOrder ==
  InUpload =>
    /\ sdk.calls = SubSeq(UploadSteps, 1, Len(sdk.calls))
    /\ (sdk.pc = "done" /\ sdk.out.ok) => sdk.calls = UploadSteps
    /\ (Called("ipfs_upload") \/ sdk.posts > 0) =>
          /\ cipher_key_result(sdk.key) = Ok
          /\ decrypt_data_result(sdk.encrypted, sdk.key)
               = CodecOk(Base64Encode(sdk.data))
    /\ Called("record_transaction") =>
          /\ sdk.posts = 1
          /\ sdk.cid \in Cids

\* An upload that ran all its steps.
C22_Witness ==
  /\ InUpload
  /\ sdk.pc = "done"
  /\ sdk.calls = UploadSteps
  /\ sdk.data = <<255, 216, 255, 224, 0, 16>>

\* Step 5 of an upload is under way: record_transaction waits for an answer
\* of the node.
InRecord ==
  /\ sdk.pc \in {"view_access_key", "block", "broadcast_tx_commit", "committed"}
  /\ sdk.op = "composite_upload"

\* The step is the return of record_transaction, and of the upload.
RecordStep == InRecord /\ sdk'.pc = "done"

\* The step is the node's: it runs the transaction of the upload.
CommitStep ==
  InRecord /\ sdk.pc = "broadcast_tx_commit" /\ sdk'.pc = "committed"

\* The ledger ran record_transaction in the step and appended the entry.
LedgerRecorded ==
  /\ last'.op = "record_transaction"
  /\ last'.result = Ok

\* The ledger has run the transaction of the upload and appended the entry.
Recorded == sdk.pc = "committed" /\ sdk.outcome.status = Ok

\* C23: when put succeeded and the record_transaction that follows fails,
\* composite_upload returns an error, sends nothing more to the content
\* store and leaves the ledger as it was.
C23_FailedRecordFailsUpload ==
  [][ /\ (InRecord /\ sdk' # sdk /\ ~(CommitStep /\ LedgerRecorded)) =>
           /\ sdk'.posts = sdk.posts
           /\ UNCHANGED ledger
      /\ (RecordStep /\ ~Recorded) => ~sdk'.out.ok ]_vars

\* C26: composite_upload returns success only if the ledger appended a
\* transaction for this upload, and the transaction id returned is the id
\* under which the ledger holds it.
C26_SuccessMeansRecorded ==
  [][ (RecordStep /\ sdk'.out.ok) =>
        /\ Recorded
        /\ \E i \in 1..Len(transactions') :
             /\ transactions'[i].id = sdk'.out.value.trans_id
             /\ transactions'[i].file_hash = sdk.file_hash
             /\ transactions'[i].ipfs_hash = Text(sdk.cid) ]_vars

PinErrorTexts ==
  {IpfsUploadFailed \o d : d \in ErrorDetails}
  \cup {IpfsResponseParseFailed \o d : d \in ErrorDetails}
  \cup {NoIpfsHash}

\* C28: put makes exactly one attempt: one request is sent, and an error of
\* the provider, a timeout included, is the result of the call at once, with
\* no second request to the provider or to another endpoint.
C28_PutSingleAttempt ==
  [][ (sdk.pc = "put" /\ sdk' # sdk) =>
        /\ sdk.posts = 0
        /\ sdk'.posts = 1
        /\ sdk'.pc \in {"done", "view_access_key"}
        /\ sdk'.calls[Len(sdk'.calls)] = "ipfs_upload" =>
             /\ sdk'.pc = "done"
             /\ ~sdk'.out.ok
             /\ sdk'.out.err = "Near"
             /\ sdk'.out.text \in PinErrorTexts
        /\ sdk'.calls[Len(sdk'.calls)] # "ipfs_upload" =>
             /\ sdk'.cid \in Cids
             /\ sdk'.pc = "done" => sdk'.out = FlowErr("Signing", NoSignerAttached)
      ]_vars

\* The provider timed out and the upload ended with that error.
C28_Witness ==
  /\ InUpload
  /\ sdk.pc = "done"
  /\ sdk.posts = 1
  /\ sdk.out = FlowErr("Near", IpfsUploadFailed \o Timeout)

\* C29: in every successful composite_upload the transaction passed to the
\* ledger carries the hex digest of the caller's plaintext as file_hash and
\* the identifier the content store returned for this upload's ciphertext
\* as content id, and the result returned carries the same two values.
C29_RecordsPlaintextHashAndCid ==
  [][ /\ CommitStep =>
           /\ sdk.method_name = "record_transaction"
           /\ record_transaction_tx(sdk.signer, sdk.group_id, sdk.user_id,
                                    Text(hex_encode(sha256_hash(sdk.data))),
                                    Text(sdk.cid))
      /\ (RecordStep /\ sdk'.out.ok) =>
           /\ sdk'.out.value.file_hash = Text(hex_encode(sha256_hash(sdk.data)))
           /\ sdk'.out.value.cid = sdk.cid
           /\ sdk.cid \in Cids
           /\ sdk.posts = 1
           /\ decrypt_data_result(sdk.encrypted, sdk.key)
                = CodecOk(Base64Encode(sdk.data)) ]_vars

\* A successful upload of six bytes whose entry is in the log; the digest of
\* the ciphertext is another one.
C29_Witness ==
  /\ InUpload
  /\ sdk.pc = "done"
  /\ sdk.out.ok
  /\ sdk.data = <<255, 216, 255, 224, 0, 16>>
  /\ \E i \in 1..Len(transactions) :
       /\ transactions[i].file_hash = sdk.out.value.file_hash
       /\ transactions[i].ipfs_hash = Text(sdk.out.value.cid)
  /\ sdk.out.value.file_hash
       # Text(hex_encode(sha256_hash(Base64Decode(sdk.encrypted).bytes)))

-----------------------------------------------------------------------------
(* C24, C30: composite_retrieve *)

InRetrieve ==
  sdk.pc \in {"loop", "sleep", "decrypt", "done"} /\ sdk.op = "composite_retrieve"

RetrieveSteps ==
  <<"get_group_key", "ipfs_retrieve", "decrypt_data", "sha256_hash">>

LastAttempt == sdk.attempts[Len(sdk.attempts)]

\* C24: composite_retrieve checks the shape of the content id, then the
\* signer, then fetches the key, then the blob, then decrypts; the first
\* step that fails gives the error and no later step runs.  A content id of
\* the wrong shape fails with the error of the shape, and a well-shaped one
\* without a signer with a Signing error, both before any request to the
\* ledger or the content store.
C24_RetrieveChecksInOrder ==
  InRetrieve =>
    /\ sdk.calls = SubSeq(RetrieveSteps, 1, Len(sdk.calls))
    /\ ~starts_with_Qm(sdk.cid) =>
         /\ sdk.pc = "done"
         /\ sdk.out = FlowErr("Near", InvalidCid \o sdk.cid)
         /\ sdk.calls = <<>>
         /\ sdk.attempts = <<>>
    /\ (starts_with_Qm(sdk.cid) /\ sdk.signer = NoSigner) =>
         /\ sdk.pc = "done"
         /\ ~sdk.out.ok
         /\ sdk.out.err = "Signing"
         /\ sdk.calls = <<>>
         /\ sdk.attempts = <<>>
    /\ sdk.attempts # <<>> =>
         /\ Len(sdk.calls) >= 2
         /\ sdk.key # <<>>
    /\ Len(sdk.calls) >= 3 => (sdk.attempts # <<>> /\ LastAttempt.ok)
    /\ (sdk.pc = "done" /\ ~sdk.out.ok) =>
         /\ Len(sdk.calls) <= 3
         /\ Len(sdk.calls) = 1 => (sdk.out.err = "Near" /\ sdk.attempts = <<>>)
         /\ Len(sdk.calls) = 2 =>
              /\ sdk.attempts # <<>>
              /\ ~LastAttempt.ok
              /\ sdk.out = FlowErr("Near", LastAttempt.text)
         /\ Len(sdk.calls) = 3 =>
              sdk.out.err \in {"InvalidKey", "Near: Decryption failed"}

\* A well-shaped content id, a signer, a key text and a blob, and then a
\* decryption that fails: the hash is not computed.
C24_Witness ==
  /\ InRetrieve
  /\ sdk.pc = "done"
  /\ ~sdk.out.ok
  /\ sdk.calls = <<"get_group_key", "ipfs_retrieve", "decrypt_data">>
  /\ Len(sdk.attempts) = 4

\* C30: composite_retrieve never writes to the ledger and reads no
\* transaction record: no step of it changes the ledger or is a call of the
\* ledger, and whenever the blob decrypts under the key received the result
\* is the plaintext with the hex digest of that plaintext, whatever the log
\* holds.
C30_RetrieveLeavesLedgerAlone ==
  [][ (sdk' # sdk /\ sdk'.pc # "idle" /\ sdk'.op = "composite_retrieve") =>
        /\ UNCHANGED <<ledger, last>>
        /\ sdk.pc = "decrypt" =>
             LET d == decrypt_data_result(sdk.out.value, sdk.key)
                 plain == Base64Decode(d.value).bytes
             IN d.ok =>
                  sdk'.out = FlowOk([data |-> plain,
                                     file_hash |->
                                       Text(hex_encode(sha256_hash(plain)))]) ]_vars

\* Six bytes retrieved while the log is empty: no transaction refers to the
\* content id.
C30_Witness ==
  /\ InRetrieve
  /\ sdk.pc = "done"
  /\ sdk.out.ok
  /\ sdk.out.value.data = <<255, 216, 255, 224, 0, 16>>
  /\ transactions = <<>>

-----------------------------------------------------------------------------
(* C25: the client without a signer *)

SignedCalls ==
  {"register_group", "add_group_member", "revoke_group_member",
   "store_group_key", "record_transaction", "transfer_tokens"}

\* C25: on a client with no signer attached, register_group,
\* add_group_member, revoke_group_member, store_group_key,
\* record_transaction and transfer_tokens to a receiver that parses all
\* fail with the Signing error "No signer attached" before any request is
\* sent, and the ledger is as before; composite_upload returns an error
\* whatever its key fetch and its put answered, and the ledger is as before.
C25_NoSignerNoRequest ==
  [][ (sdk' # sdk /\ sdk'.pc = "done" /\ sdk'.signer = NoSigner) =>
        /\ (/\ sdk'.op \in SignedCalls
            /\ sdk'.op = "transfer_tokens" =>
                 is_valid_account_id(sdk'.args.to_account)) =>
             /\ sdk'.out = FlowErr("Signing", NoSignerAttached)
             /\ sdk'.calls = <<>>
             /\ UNCHANGED <<ledger, last>>
        /\ sdk'.op = "composite_upload" =>
             /\ ~sdk'.out.ok
             /\ UNCHANGED ledger ]_vars

\* composite_upload without a signer that received a key and a content id,
\* and ended at record_transaction with the Signing error.
C25_WitnessUpload ==
  /\ sdk.pc = "done"
  /\ sdk.op = "composite_upload"
  /\ sdk.signer = NoSigner
  /\ sdk.cid = <<"Q", "m">>
  /\ sdk.out = FlowErr("Signing", NoSignerAttached)
  /\ sdk.calls[Len(sdk.calls)] = "record_transaction"

\* store_group_key without a signer: the Signing error and no request.
C25_Witness ==
  /\ sdk.pc = "done"
  /\ sdk.op = "store_group_key"
  /\ sdk.signer = NoSigner
  /\ sdk.out = FlowErr("Signing", NoSignerAttached)
  /\ sdk.calls = <<>>

-----------------------------------------------------------------------------
(* C31: revoke_member of a user who is no member *)

\* C31: revoke_member(g, u) by the owner of g for a u that is not currently
\* a member of g (never added, or revoked since) fails NotAMember and
\* rotates nothing: the membership of g and the key of g, or its absence,
\* are as before the call.
C31_RevokeNonMemberFails ==
  [][ (/\ last'.op = "revoke_group_member"
       /\ Registered(last'.group_id)
       /\ last'.caller = groups[last'.group_id].owner
       /\ <<last'.group_id, last'.user_id>> \notin granted)
        => /\ Kind(last'.result) = "NotAMember"
           /\ KeyOf(groups', last'.group_id) = KeyOf(groups, last'.group_id)
           /\ group_members'[last'.group_id] = group_members[last'.group_id]
           /\ MemberVec(last'.group_id)
                = [i \in 0..(group_members[last'.group_id] - 1) |->
                     IF i \in DOMAIN vec_storage' THEN vec_storage'[i]
                     ELSE Absent]
    ]_vars

-----------------------------------------------------------------------------
(* C32, C33: decrypt_data on payloads that are too short or malformed *)

Decrypted == sdk.pc = "decrypted" /\ Base64Decode(sdk.encrypted).ok

\* The bytes of the payload handed to decrypt_data.
PayloadBytes == Base64Decode(sdk.encrypted).bytes

\* C32, as stated: decrypt fails with kind InvalidKey whenever fewer than 16
\* bytes of the decoded payload remain once the 16 bytes of the IV are set
\* aside.
C32_ShortAfterIvFailsInvalidKey ==
  (Decrypted /\ Len(PayloadBytes) - BlockLen < BlockLen) =>
    sdk.out = CodecErr("InvalidKey")

\* C32, amended: decrypt fails with kind InvalidKey whenever the decoded
\* payload holds fewer than 16 bytes, that is no whole IV; a payload that
\* holds the IV and fewer than 16 bytes after it fails as well, under a key
\* of 32 bytes with a decryption error.
C32_NoWholeIvFailsInvalidKey ==
  Decrypted =>
    /\ Len(PayloadBytes) < BlockLen => sdk.out = CodecErr("InvalidKey")
    /\ (/\ Len(PayloadBytes) >= BlockLen
        /\ Len(PayloadBytes) - BlockLen < BlockLen) =>
         /\ ~sdk.out.ok
         /\ cipher_key_result(sdk.dkey) = Ok =>
              sdk.out = CodecErr("Near: Decryption failed")

\* Fifteen bytes handed to decrypt_data with a key of 32 bytes.
C32_Witness ==
  /\ Decrypted
  /\ Len(PayloadBytes) = BlockLen - 1
  /\ cipher_key_result(sdk.dkey) = Ok
  /\ sdk.out = CodecErr("InvalidKey")

\* The part of the payload after the IV, and what it decrypts to under the
\* key handed to decrypt_data.
CiphertextPart == SubSeq(PayloadBytes, BlockLen + 1, Len(PayloadBytes))

DecryptedBlocks ==
  CbcDecrypt(Base64Decode(sdk.dkey).bytes, SubSeq(PayloadBytes, 1, BlockLen),
             CiphertextPart)

\* The last byte n of buf is not in 1..16, or the last n bytes are not all n.
PaddingMalformed(buf) ==
  LET n == buf[Len(buf)]
  IN \/ n = 0
     \/ n > BlockLen
     \/ \E i \in (Len(buf) - n + 1)..Len(buf) : buf[i] # n

\* C33: decrypt returns no plaintext for a payload whose part after the IV
\* is not a positive multiple of 16 bytes, or whose last block decrypts to a
\* malformed PKCS7 padding: the call fails, under a key of 32 bytes with the
\* decryption error.
C33_MalformedCiphertextFails ==
  (Decrypted /\ Len(PayloadBytes) >= BlockLen) =>
    ((\/ Len(CiphertextPart) = 0
      \/ Len(CiphertextPart) % BlockLen # 0
      \/ /\ cipher_key_result(sdk.dkey) = Ok
         /\ PaddingMalformed(DecryptedBlocks))
       => /\ ~sdk.out.ok
          /\ cipher_key_result(sdk.dkey) = Ok =>
               sdk.out = CodecErr("Near: Decryption failed"))

\* Whole blocks whose last one decrypts to a malformed padding: the first
\* block of a ciphertext of two, under the key of the encryption.
C33_Witness ==
  /\ Decrypted
  /\ Len(CiphertextPart) = BlockLen
  /\ sdk.dkey = sdk.key
  /\ cipher_key_result(sdk.dkey) = Ok
  /\ DecryptedBlocks = [i \in 1..BlockLen |-> i]
  /\ PaddingMalformed(DecryptedBlocks)
  /\ sdk.out = CodecErr("Near: Decryption failed")

-----------------------------------------------------------------------------
(* C34: the read operations *)

ReadOps == {"is_authorized", "get_group_key", "get_transactions_for_group"}

\* C34: is_authorized, get_key and list_transactions never change the state
\* of the ledger (groups, owners, memberships, keys, transaction log),
\* whether they return or fail.
C34_ReadsLeaveLedgerAlone ==
  [][ (last' # last /\ last'.op \in ReadOps) => UNCHANGED ledger ]_vars

\* A member has read the key of a group, while the log holds an entry.
C34_Witness ==
  /\ last.op = "get_group_key"
  /\ last.result = Ok
  /\ Len(transactions) > 0

-----------------------------------------------------------------------------
(* C35: isolation of the groups *)

\* is_authorized(g, u) as it answers after the step: true, false, or the
\* panic of the call.
AuthorizedAfter(g, u) ==
  LET len == group_members'[g]
      slot(i) == IF i \in DOMAIN vec_storage' THEN vec_storage'[i] ELSE Absent
      stops == {i \in 0..(len - 1) : slot(i) = Absent \/ slot(i) = u}
  IN IF stops = {} THEN "false"
     ELSE IF slot(CHOOSE i \in stops : \A j \in stops : i <= j) = Absent
       THEN ErrIndexOutOfBounds
     ELSE "true"

AuthorizedBefore(g, u) ==
  IF is_authorized_result(g, u) # Ok THEN is_authorized_result(g, u)
  ELSE IF is_authorized_value(g, u) THEN "true" ELSE "false"

\* C35: a successful add_member, revoke_member or store_key on group g
\* leaves the membership, the key and the owner of every other group g' as
\* they were, so is_authorized(g', u) answers after the call what it
\* answered before, for every u.
C35_GroupsIsolated ==
  [][ (last' # last /\ last'.op \in GatedOps /\ last'.result = Ok) =>
        \A g \in DOMAIN groups \ {last'.group_id} :
          /\ groups'[g] = groups[g]
          /\ group_members'[g] = group_members[g]
          /\ \A u \in Accounts : AuthorizedAfter(g, u) = AuthorizedBefore(g, u)
    ]_vars

-----------------------------------------------------------------------------
(* C36: an upload and a rotation of the key between its steps *)

\* C36: whatever calls other principals make on the ledger between the
\* steps of a composite_upload, if the upload records a transaction then
\* the ciphertext it stored was encrypted under the key that is the group's
\* key when the transaction is recorded; a revoke_member of another member
\* between the key fetch and record_transaction leaves no recorded blob
\* that is encrypted under the key from before the revocation.
C36_RecordedUnderCurrentKey ==
  [][ (CommitStep /\ LedgerRecorded) =>
        /\ encrypt_data_result(sdk.data, sdk.key, sdk.iv) = CodecOk(sdk.encrypted)
        /\ KeyOf(groups', sdk.group_id) = SomeKey(sdk.key) ]_vars

-----------------------------------------------------------------------------
(* C37: upload, then retrieve *)

\* A retrieve of the content id of a successful upload has returned; the
\* reader was a member, the key query answered the group's key, and the
\* gateway delivered the bytes that were pinned.
RetrievedUpload ==
  /\ InRetrieve
  /\ sdk.pc = "done"
  /\ sdk.uploaded.member
  /\ sdk.uploaded.key_now = SomeKey(sdk.key)
  /\ sdk.attempts # <<>>
  /\ LastAttempt.ok
  /\ LastAttempt.value = sdk.uploaded.encrypted

\* C37: composite_retrieve by a current member of a content id returned by a
\* successful composite_upload to the same group, the content store
\* delivering the stored bytes, returns the uploaded plaintext if and only
\* if the group's key at the retrieve equals the key of the upload; after a
\* store_key or revoke_member that changed the key it returns no plaintext
\* equal to the one uploaded.
C37_RoundTripIffSameKey ==
  RetrievedUpload =>
    ((sdk.out.ok /\ sdk.out.value.data = sdk.uploaded.data)
       <=> sdk.uploaded.key_now = SomeKey(sdk.uploaded.key))

\* Six bytes uploaded and retrieved under the same key, after a timeout of
\* the gateway.
C37_Witness ==
  /\ RetrievedUpload
  /\ sdk.uploaded.data = <<255, 216, 255, 224, 0, 16>>
  /\ sdk.uploaded.key_now = SomeKey(sdk.uploaded.key)
  /\ sdk.out.ok
  /\ sdk.out.value.data = sdk.uploaded.data
  /\ Len(sdk.attempts) = 2

\* Six bytes retrieved after a revocation that rotated the key: no
\* plaintext.
C37_WitnessRotated ==
  /\ RetrievedUpload
  /\ sdk.uploaded.data = <<255, 216, 255, 224, 0, 16>>
  /\ sdk.uploaded.key_now # SomeKey(sdk.uploaded.key)
  /\ ~sdk.out.ok

-----------------------------------------------------------------------------
(* C38: groups are permanent and have one owner: in every reachable state  *)
(* each registered group's owner is the registrar fixed when the ledger    *)
(* was initialised, no operation changes the registrar or a group's owner, *)
(* and no operation removes a registered group or its member vector.       *)
C38_GroupsPermanentSingleOwner ==
  [][ /\ owner' = owner
      /\ \A g \in DOMAIN groups' : groups'[g].owner = owner'
      /\ \A g \in DOMAIN groups :
           /\ g \in DOMAIN groups'
           /\ g \in DOMAIN group_members'
           /\ groups'[g].owner = groups[g].owner
    ]_vars

\* Both groups are registered and hold keys, and the registrar has just
\* revoked a member of one of them.
C38_Witness ==
  /\ last.op = "revoke_group_member"
  /\ last.result = Ok
  /\ DOMAIN groups = GroupIds
  /\ DOMAIN group_members = GroupIds
  /\ \A g \in GroupIds : groups[g].owner = owner /\ groups[g].group_key.is_some

-----------------------------------------------------------------------------
(* C39: in every reachable state a group's key is absent or base64 text    *)
(* that decodes to exactly 32 bytes; a key that is set never becomes       *)
(* absent again; a successful store_key or revoke_member leaves the group  *)
(* with a key; hence get_key by a member on a group whose key was set      *)
(* never fails NoKeySet.  No group exists initially, so the keys of every *)
(* reachable state are well formed when every step that gives a group a    *)
(* key other than the one it had gives it a well-formed one.               *)
WellFormedKey(k) == ~k.is_some \/ ValidKey32(k.value)

C39_KeyWellFormedAndKept ==
  [][ /\ \A g \in DOMAIN groups' :
           \/ KeyOf(groups, g) = groups'[g].group_key
           \/ WellFormedKey(groups'[g].group_key)
      /\ \A g \in DOMAIN groups :
           groups[g].group_key.is_some => KeyOf(groups', g).is_some
      /\ (/\ last'.op \in {"store_group_key", "revoke_group_member"}
          /\ last'.result = Ok)
           => KeyOf(groups', last'.group_id).is_some
      /\ (/\ last'.op = "get_group_key"
          /\ KeyOf(groups, last'.group_id).is_some)
           => Kind(last'.result) # "NoKeySet"
    ]_vars

\* A member reads the key of a group whose key was set by a rotation and
\* then replaced by store_group_key, while the other group's key comes
\* from a rotation.
C39_Witness ==
  /\ last.op = "get_group_key"
  /\ last.result = Ok
  /\ <<last.group_id, last.caller>> \in granted
  /\ \E u \in Users : <<last.group_id, u>> \in revoked
  /\ groups[last.group_id].group_key = SomeKey(Base64Encode(Bytes32(0)))
  /\ \E g \in DOMAIN groups, seed \in Seeds :
       /\ g # last.group_id
       /\ groups[g].group_key = SomeKey(rotated_key(seed))
       /\ rotated_key(seed) # Base64Encode(Bytes32(0))

====
